---------------------------- MODULE Spec2Model ----------------------------
(***************************************************************************)
(* PaperClip (src/bot.py): the multi-provider dispatch engine.             *)
(*                                                                         *)
(* The program is a single asyncio event loop.  Code between two awaits    *)
(* runs without interleaving, so an action is the stretch of a coroutine   *)
(* from one suspension (a network round trip, a backoff sleep) to the      *)
(* next, or to its return.                                                 *)
(*                                                                         *)
(* Time is time.time() in whole seconds: retry delays and the 2 s spacing   *)
(* are whole seconds.  The backoff sleeps (0.4 s, 0.8 s) and the poll       *)
(* interval (0.35 s) are shorter than one second, so they can end within   *)
(* the second in which they began or in any later one.                     *)
(* Strings that the code parses are sequences of one-character strings.    *)
(***************************************************************************)
EXTENDS Integers, Sequences, FiniteSets, TLC

(***************************************************************************)
(* Bounds of the model.                                                    *)
(***************************************************************************)
MaxTasks == 2

MaxTime == 2

MaxCalls == 3

MaxStrLen == 3

(***************************************************************************)
(* Program constants.                                                      *)
(***************************************************************************)
MAX_PROVIDER_RETRIES == 2

DEFAULT_RETRY_DELAY == 10

HISTORY_WINDOW == 30

DEFAULT_PRIORITY == 100

\* the 2 s of process_clip_as_prompt
MIN_SPACING == 2

\* the process starts at a time.time() far above last_response_time = 0
StartTime == MIN_SPACING

\* the 0.4 s of line 300, in tenths of a second
BACKOFF_TENTHS == 4

(***************************************************************************)
(* Character sequences.                                                    *)
(***************************************************************************)
DigitChars == <<"0", "1", "2", "3", "4", "5", "6", "7", "8", "9">>

IsDigit(c) == \E i \in 1..10 : DigitChars[i] = c

DigitVal(c) == (CHOOSE i \in 1..10 : DigitChars[i] = c) - 1

IsSpace(c) == c = " "

SubStr(s, from, to) == [i \in 1..(to - from + 1) |-> s[from + i - 1]]

\* int("<digits>")
RECURSIVE int(_)
int(ds) ==
    IF ds = <<>> THEN 0
    ELSE 10 * int(SubStr(ds, 1, Len(ds) - 1)) + DigitVal(ds[Len(ds)])

(***************************************************************************)
(* Python ints are unbounded and a double holds 53 significant bits, so    *)
(* the value the seconds pattern yields is computed on decimal digit       *)
(* sequences (most significant digit first, no leading zero, <<>> for 0).  *)
(***************************************************************************)
RECURSIVE Trim(_)
Trim(d) == IF d # <<>> /\ Head(d) = 0 THEN Trim(Tail(d)) ELSE d

RECURSIVE DecDigitsFrom(_, _)
DecDigitsFrom(ds, i) ==
    IF i > Len(ds) THEN <<>> ELSE <<DigitVal(ds[i])>> \o DecDigitsFrom(ds, i + 1)

DecDigits(ds) == Trim(DecDigitsFrom(ds, 1))

Front(s) == SubSeq(s, 1, Len(s) - 1)

\* the digits of d \div 2 from position i on, by long division
RECURSIVE HalfFrom(_, _)
HalfFrom(d, i) ==
    IF i > Len(d) THEN <<>>
    ELSE <<((IF i > 1 /\ d[i - 1] % 2 = 1 THEN 10 ELSE 0) + d[i]) \div 2>>
         \o HalfFrom(d, i + 1)

Half(d) == Trim(HalfFrom(d, 1))

\* the digits of 2 * d + b from position i on, without the leading carry
RECURSIVE DoubleFrom(_, _, _)
DoubleFrom(d, b, i) ==
    IF i > Len(d) THEN <<>>
    ELSE <<(2 * d[i] + (IF i = Len(d) THEN b
                        ELSE IF d[i + 1] >= 5 THEN 1 ELSE 0)) % 10>>
         \o DoubleFrom(d, b, i + 1)

\* 2 * d + b for a bit b
DoublePlus(d, b) ==
    IF d = <<>> THEN (IF b = 1 THEN <<1>> ELSE <<>>)
    ELSE IF d[1] >= 5 THEN <<1>> \o DoubleFrom(d, b, 1) ELSE DoubleFrom(d, b, 1)

\* d + 1
RECURSIVE IncDec(_)
IncDec(d) ==
    IF d = <<>> THEN <<1>>
    ELSE IF d[Len(d)] < 9 THEN Append(Front(d), d[Len(d)] + 1)
    ELSE Append(IncDec(Front(d)), 0)

\* a < b
Less(a, b) ==
    \/ Len(a) < Len(b)
    \/ /\ Len(a) = Len(b)
       /\ \E i \in 1..Len(a) : a[i] < b[i] /\ \A j \in 1..(i - 1) : a[j] = b[j]

\* 2^53: a double has 53 significant bits
TWO_53 == <<9, 0, 0, 7, 1, 9, 9, 2, 5, 4, 7, 4, 0, 9, 9, 2>>

\* the largest finite double is below 2^1024 = 2^53 * 2^971
MAX_SHIFT == 971

(***************************************************************************)
(* q is halved until it fits 53 bits; guard is the last bit shifted out    *)
(* and sticky tells whether a 1 was shifted out before it.                 *)
(***************************************************************************)
RECURSIVE Shift(_, _, _, _)
Shift(q, guard, sticky, k) ==
    IF Less(q, TWO_53) THEN [mant |-> q, guard |-> guard, sticky |-> sticky, exp |-> k]
    ELSE Shift(Half(q), q[Len(q)] % 2, sticky \/ guard = 1, k + 1)

\* float("<digits>"): the nearest double mant * 2^exp, ties to even
float(ds) ==
    LET r  == Shift(DecDigits(ds), 0, FALSE, 0)
        up == /\ r.guard = 1
              /\ r.sticky \/ (r.mant # <<>> /\ r.mant[Len(r.mant)] % 2 = 1)
    IN  [mant |-> IF up THEN IncDec(r.mant) ELSE r.mant, exp |-> r.exp]

\* a double of 2^1024 or more is inf
IsInf(f) == f.exp > MAX_SHIFT \/ (f.exp = MAX_SHIFT /\ f.mant = TWO_53)

\* d * 2^k
RECURSIVE Scale(_, _)
Scale(d, k) == IF k = 0 THEN d ELSE Scale(DoublePlus(d, 0), k - 1)

\* int(float(...)); int(inf) raises OverflowError
int_float(ds) ==
    LET f == float(ds)
    IN  IF IsInf(f) THEN [kind |-> "raise", value |-> <<>>]
        ELSE [kind |-> "return", value |-> Scale(f.mant, f.exp)]

\* the digit sequence of a natural number the model can hold
RECURSIVE Digits(_)
Digits(n) == IF n = 0 THEN <<>> ELSE Append(Digits(n \div 10), n % 10)

\* and back
RECURSIVE Val(_)
Val(d) == IF d = <<>> THEN 0 ELSE 10 * Val(Front(d)) + d[Len(d)]

RECURSIVE lstrip(_)
lstrip(s) ==
    IF s # <<>> /\ IsSpace(Head(s)) THEN lstrip(Tail(s)) ELSE s

RECURSIVE rstrip(_)
rstrip(s) ==
    IF s # <<>> /\ IsSpace(s[Len(s)]) THEN rstrip(SubStr(s, 1, Len(s) - 1)) ELSE s

strip(s) == rstrip(lstrip(s))

\* length of the maximal run of digits of s that starts at position i
RECURSIVE DigitRun(_, _)
DigitRun(s, i) ==
    IF i <= Len(s) /\ IsDigit(s[i]) THEN 1 + DigitRun(s, i + 1) ELSE 0

(***************************************************************************)
(* re.match(r"^(\d+)(?:\.\d+)?s$", s): the length of group 1, 0 when the   *)
(* pattern does not match.  s is stripped, so `$` only matches at the end. *)
(***************************************************************************)
MatchSeconds(s) ==
    LET n == DigitRun(s, 1)
        f == DigitRun(s, n + 2)
    IN  IF n = 0 THEN 0
        ELSE IF Len(s) = n + 1 /\ s[n + 1] = "s" THEN n
        ELSE IF /\ Len(s) > n + 1
                /\ s[n + 1] = "."
                /\ f >= 1
                /\ Len(s) = n + 1 + f + 1
                /\ s[Len(s)] = "s" THEN n
        ELSE 0

(***************************************************************************)
(* One optional group (?:(\d+)X)? of the ISO pattern tried at position i:  *)
(* the position after it and the value of int(group or 0).                 *)
(***************************************************************************)
IsoGroup(s, i, letter) ==
    LET n == DigitRun(s, i)
    IN  IF n >= 1 /\ i + n <= Len(s) /\ s[i + n] = letter
        THEN [next |-> i + n + 1, val |-> int(SubStr(s, i, i + n - 1))]
        ELSE [next |-> i, val |-> 0]

(***************************************************************************)
(* re.match(r"^PT(?:(\d+)H)?(?:(\d+)M)?(?:(\d+)S)?$", s)                   *)
(***************************************************************************)
MatchIso(s) ==
    IF ~(Len(s) >= 2 /\ s[1] = "P" /\ s[2] = "T")
    THEN [ok |-> FALSE, hours |-> 0, mins |-> 0, secs |-> 0]
    ELSE LET h  == IsoGroup(s, 3, "H")
             m  == IsoGroup(s, h.next, "M")
             sc == IsoGroup(s, m.next, "S")
         IN  [ok |-> sc.next = Len(s) + 1,
              hours |-> h.val, mins |-> m.val, secs |-> sc.val]

(***************************************************************************)
(* Decoded JSON error bodies, as far as parse_retry_delay_seconds looks    *)
(* into them.  A value of kind "map" is a dict; kind "other" is any value  *)
(* on which the operation the code applies raises (.get on a non-dict,     *)
(* iteration over a non-iterable, `in` on None); kind "absent" is a        *)
(* missing key, for which the code's .get default is used.                 *)
(***************************************************************************)
RETRY_INFO_TYPE == "type.googleapis.com/google.rpc.RetryInfo"

ERROR_INFO_TYPE == "type.googleapis.com/google.rpc.ErrorInfo"

\* "RetryInfo" in <the @type string>
ContainsRetryInfo(type) == type = RETRY_INFO_TYPE

JAbsent == [k |-> "absent"]

JOther == [k |-> "other"]

JStr(s) == [k |-> "str", s |-> s]

JNum(n) == [k |-> "num", n |-> n]

JDetail(type, rd) == [k |-> "map", type |-> type, retryDelay |-> rd]

JBody(items) ==
    [k |-> "map", error |-> [k |-> "map", details |-> [k |-> "list", items |-> items]]]

\* str(n) of a non-negative int
RECURSIVE str_int(_)
str_int(n) ==
    IF n < 10 THEN <<DigitChars[n + 1]>>
    ELSE str_int(n \div 10) \o <<DigitChars[(n % 10) + 1]>>

\* str(rd)
str(rd) == IF rd.k = "str" THEN rd.s ELSE str_int(rd.n)

\* `if rd:`
Truthy(rd) ==
    CASE rd.k = "str" -> rd.s # <<>>
      [] rd.k = "num" -> rd.n # 0
      [] OTHER -> FALSE

Return(n) == [kind |-> "return", value |-> n]

Raised == [kind |-> "raise", value |-> <<>>]

FellThrough == [kind |-> "end", value |-> <<>>]

\* lines 81-90: the two patterns tried on one non-empty retryDelay
ParseDelay(rd) ==
    LET s  == strip(str(rd))
        g1 == MatchSeconds(s)
        m2 == MatchIso(s)
    IN  IF g1 > 0 THEN int_float(SubStr(s, 1, g1))
        ELSE IF m2.ok THEN Return(Digits(m2.hours * 3600 + m2.mins * 60 + m2.secs))
        ELSE FellThrough

\* lines 77-90: the loop over details
RECURSIVE ScanDetails(_)
ScanDetails(details) ==
    IF details = <<>> THEN FellThrough
    ELSE LET d == Head(details)
         IN  IF d.k # "map" THEN Raised
             ELSE IF d.type = "null" THEN Raised
             ELSE IF d.type = "absent" \/ ~ContainsRetryInfo(d.type)
                  THEN ScanDetails(Tail(details))
             ELSE IF ~Truthy(d.retryDelay) THEN ScanDetails(Tail(details))
             ELSE LET r == ParseDelay(d.retryDelay)
                  IN  IF r.kind = "end" THEN ScanDetails(Tail(details)) ELSE r

\* lines 74-93
parse_retry_delay_seconds(error_json) ==
    LET r == IF error_json.k # "map" THEN Raised
             ELSE IF error_json.error.k = "absent" THEN FellThrough
             ELSE IF error_json.error.k # "map" THEN Raised
             ELSE IF error_json.error.details.k = "absent" THEN FellThrough
             ELSE IF error_json.error.details.k # "list" THEN Raised
             ELSE ScanDetails(error_json.error.details.items)
    IN  IF r.kind = "return" THEN r.value ELSE Digits(DEFAULT_RETRY_DELAY)

(***************************************************************************)
(* Provider records.  A record of providers.json has the keys id, type,    *)
(* model and base_url, and may or may not have the keys enabled and        *)
(* priority.  model = "" and base_url = "" stand for a missing key.        *)
(***************************************************************************)
GOOGLE_URL == "https://generativelanguage.googleapis.com/v1beta"

OPENROUTER_URL == "https://openrouter.ai"

\* `token in id.lower()` for the ids the model uses
IdContains(id, token) ==
    <<id, token>> \in {<<"gemini-free", "gemini">>, <<"my-openrouter", "openrouter">>}

\* type.lower()
lower(type) == IF type = "Gemini" THEN "gemini" ELSE type

\* dict.setdefault(key, value)
setdefault(p, key, value) == IF key \in DOMAIN p THEN p ELSE p @@ (key :> value)

\* a sort that puts p before the elements of its priority
InsertBeforeEqual(sorted, p) ==
    LET k == Cardinality({i \in 1..Len(sorted) : sorted[i].priority < p.priority})
    IN  SubSeq(sorted, 1, k) \o <<p>> \o SubSeq(sorted, k + 1, Len(sorted))

\* list.sort(key=priority) is stable: p goes after every element whose
\* priority is not larger
InsertByPriority(sorted, p) ==
    LET k == Cardinality({i \in 1..Len(sorted) : sorted[i].priority <= p.priority})
    IN  SubSeq(sorted, 1, k) \o <<p>> \o SubSeq(sorted, k + 1, Len(sorted))

RECURSIVE SortByPriority(_)
SortByPriority(s) ==
    IF s = <<>> THEN <<>>
    ELSE InsertByPriority(SortByPriority(SubSeq(s, 1, Len(s) - 1)), s[Len(s)])

IsEnabled(p) == p.enabled

\* lines 34-46; the runtime key _disabled_until is absent (read as 0)
load_providers(raw) ==
    LET defaulted == [i \in 1..Len(raw) |->
                        setdefault(setdefault(raw[i], "enabled", TRUE),
                                   "priority", DEFAULT_PRIORITY)]
        active    == SelectSeq(defaulted, IsEnabled)
        sorted    == SortByPriority(active)
    IN  [i \in 1..Len(sorted) |->
            [id |-> sorted[i].id, type |-> sorted[i].type,
             model |-> sorted[i].model, base_url |-> sorted[i].base_url,
             enabled |-> sorted[i].enabled, priority |-> sorted[i].priority,
             disabled_until |-> 0]]

\* line 266
Matches(p, preferred) == p.type = preferred \/ IdContains(p.id, preferred)

(***************************************************************************)
(* Lines 262-268: the providers of one submission, as indices into the     *)
(* global list (the loop works on the shared dict objects).  `p not in     *)
(* matching` compares dicts by value.                                      *)
(***************************************************************************)
order_providers(plist, preferred) ==
    LET all      == [i \in 1..Len(plist) |-> i]
        provs    == SelectSeq(all, LAMBDA i : plist[i].enabled)
        matching == SelectSeq(provs, LAMBDA i : Matches(plist[i], preferred))
        others   == SelectSeq(provs, LAMBDA i :
                        ~\E j \in 1..Len(matching) : plist[matching[j]] = plist[i])
    IN  IF preferred = "" THEN provs ELSE matching \o others

(***************************************************************************)
(* Lines 136-142: the Gemini branch raises before any round trip when      *)
(* base_url is missing (None.rstrip) or model is missing.                  *)
(***************************************************************************)
IsGeminiBranch(p) == lower(p.type) = "gemini" \/ p.base_url = GOOGLE_URL

FailsLocally(p) == IsGeminiBranch(p) /\ (p.base_url = "" \/ p.model = "")

(***************************************************************************)
(* Lines 247-258: the context of a submission.                             *)
(***************************************************************************)
SYSTEM_MSG == "You are a helpful coding assistant. ..."

\* s[:n] in place of s[-n:]
FirstN(s, n) == IF Len(s) <= n THEN s ELSE SubSeq(s, 1, n)

\* s[-n:]
LastN(s, n) == IF Len(s) <= n THEN s ELSE SubSeq(s, Len(s) - n + 1, Len(s))

build_messages(history, prompt_text) ==
    LET recent == LastN(history, HISTORY_WINDOW)
    IN  <<[role |-> "system", content |-> SYSTEM_MSG]>>
        \o [i \in 1..Len(recent) |-> [role |-> recent[i].role, content |-> recent[i].text]]
        \o <<[role |-> "user", content |-> prompt_text]>>

(***************************************************************************)
(* State.                                                                  *)
(***************************************************************************)
VARIABLES
    providers_file,          \* the decoded providers.json
    providers,               \* the global list, with _disabled_until
    preferred_provider_type,
    current_session,         \* its messages (role, text, provider)
    last_response_time,
    now,                     \* time.time()
    tasks,                   \* the process_clip_as_prompt tasks
    error_json,              \* argument of a direct parse_retry_delay_seconds
    retry_seconds,           \* <<its result>>, <<>> before the call
    round_trips,             \* if capped: the number of requests sent so far
    call,                    \* a direct call of call_provider or of
                             \* minimalize_response: its arguments
    res,                     \* <<its outcome>>, <<>> before the call
    running,                 \* the global `running`, line 29
    recording,               \* whether the behaviour keeps last_handover
    capped,                  \* whether the behaviour ends at MaxCalls requests
    last_handover            \* if recording: when process_clip_as_prompt
                             \* last called send_prompt, if that is less
                             \* than MIN_SPACING seconds ago; if not, 0

\* no direct call
NoCall == [fn |-> "none"]

vars == <<providers_file, providers, preferred_provider_type, current_session,
          last_response_time, now, tasks, error_json, retry_seconds, round_trips,
          call, res, running, recording, capped,
                   last_handover>>

Tasks == 1..MaxTasks

NoExc == [kind |-> "None"]

NoOut == [kind |-> "none"]

\* a task slot before asyncio.create_task fills it.  delay is the argument
\* of the asyncio.sleep the task is in, in tenths of a second.  The last
\* four fields record what the task did: the arguments of its latest
\* call_provider, the number of call_provider invocations per provider, the
\* number of round trips it started and the number of messages it appended.
NoTaskYet ==
    [pc |-> "none", prompt_text |-> <<>>, messages |-> <<>>, provs |-> <<>>,
     idx |-> 0, attempt |-> 0, last_exc |-> NoExc, out |-> NoOut, delay |-> 0,
     call_args |-> <<>>, calls |-> <<>>, sent |-> 0, appended |-> 0]

\* the text of the k-th prompt that is copied: "q1", "q2", ...
Prompt(k) == <<"q">> \o str_int(k)

ResponseTexts == {<<"r", "1">>}

\* bodies of HTTP 429 answers
RateLimitBodies ==
    { JBody(<<JDetail(RETRY_INFO_TYPE, JStr(<<"0", "s">>))>>),
      JBody(<<JDetail(RETRY_INFO_TYPE, JStr(<<"1", "s">>))>>) }

\* parse_retry_delay_seconds of each body of RateLimitBodies, computed once
ParsedDelays == {<<d, Val(parse_retry_delay_seconds(d))>> : d \in RateLimitBodies}

\* ex.retry_seconds = parse_retry_delay_seconds(data), lines 166 and 227
RetrySecondsOf(data) == (CHOOSE p \in ParsedDelays : p[1] = data)[2]

\* what one round trip can end with; a transport error or a timeout takes
\* the path of status 500
Responses ==
    {[status |-> 200, text |-> x, data |-> JAbsent] : x \in ResponseTexts}
    \cup {[status |-> 429, text |-> <<>>, data |-> d] : d \in RateLimitBodies}
    \cup {[status |-> 500, text |-> <<>>, data |-> JAbsent]}

\* clipboard texts that change something: the two model commands, and the
\* texts that the current mode makes a prompt
ClipTexts ==
    {[cmd |-> c, prompt |-> <<>>] : c \in {"model.gem", "model.openr"}}
    \cup {[cmd |-> "prompt", prompt |-> Prompt(k)] : k \in Tasks}

Provider(id, type, priority, model, base_url) ==
    [id |-> id, type |-> type, priority |-> priority, model |-> model,
     base_url |-> base_url]

\* providers.json files: an empty one, two Gemini entries of which the
\* first lacks its model, and two OpenRouter entries of which the second
\* relies on the defaults.  Files that mix the types are in OrderConfigs.
Configs ==
    { <<>>,
      << Provider("p1", "gemini", 10, "", GOOGLE_URL),
         Provider("p2", "gemini", 20, "gemini-2.0-flash", GOOGLE_URL) >>,
      << Provider("p1", "openrouter", 10, "openrouter/auto", OPENROUTER_URL),
         Provider("p2", "openrouter", 20, "", "") >> }

\* `<=` in place of `<`
IsDisabledAtExpiry(p, time) == p.disabled_until # 0 /\ time <= p.disabled_until

\* lines 270-271
IsDisabled(p, time) == p.disabled_until # 0 /\ time < p.disabled_until

\* getattr(e, "retry_seconds", None) is truthy
HasRetrySeconds(e) == "retry_seconds" \in DOMAIN e /\ e.retry_seconds # 0

(***************************************************************************)
(* The coroutine of a submission has returned or raised: its frame is      *)
(* gone.  The slot keeps how the submission ended, the order it went       *)
(* through and how far it got, and what it appended.                       *)
(***************************************************************************)
Finished(task) ==
    [task EXCEPT !.messages = <<>>, !.call_args = <<>>, !.calls = <<>>,
                 !.attempt = 0, !.sent = 0, !.delay = 0,
                 !.last_exc = IF task.pc = "failed" THEN @ ELSE NoExc]

\* the requests that the step of task t sends
Sends(t) == IF tasks'[t].sent > tasks[t].sent THEN tasks'[t].sent - tasks[t].sent ELSE 0

\* the step of task t counts its requests; MaxCalls of them can be sent
CountSends(t) ==
    /\ round_trips' = IF capped THEN round_trips + Sends(t) ELSE round_trips
    /\ round_trips' <= MaxCalls

(***************************************************************************)
(* Lines 294 and 299-301: a failure without retry delay; the task sleeps   *)
(* 0.4 * attempt seconds before `continue`.                                *)
(***************************************************************************)
Backoff(task, e) ==
    [task EXCEPT !.last_exc = e, !.pc = "sleeping",
                 !.delay = BACKOFF_TENTHS * task.attempt]

(***************************************************************************)
(* Line 278 up to the first suspension: call_provider is entered for the   *)
(* provider at task.idx.  The Gemini branch can raise before it sends      *)
(* anything (lines 136-142), which the except clause treats as a failure   *)
(* without retry delay; otherwise the request is sent and the task waits.  *)
(***************************************************************************)
Attempt(task, plist) ==
    LET p       == task.provs[task.idx]
        entered == [task EXCEPT !.calls[p] = @ + 1, !.delay = 0,
                                !.call_args = <<task.messages, task.prompt_text>>]
    IN  IF FailsLocally(plist[p])
        THEN Backoff(entered, [kind |-> "ConfigError"])
        ELSE [entered EXCEPT !.pc = "awaiting", !.sent = @ + 1]

(***************************************************************************)
(* Lines 269-276 and 302: the provider loop from position i on.  Providers *)
(* in cooldown are skipped; the first available one is attempted; with     *)
(* none left the submission fails (caught at lines 354-355).               *)
(***************************************************************************)
RECURSIVE ProviderLoop(_, _, _)
ProviderLoop(task, i, plist) ==
    IF i > Len(task.provs)
    THEN Finished([task EXCEPT !.pc = "failed", !.idx = i,
                      !.out = [kind |-> "error", msg |-> "All providers failed",
                               last |-> task.last_exc]])
    ELSE IF IsDisabled(plist[task.provs[i]], now)
    THEN ProviderLoop(task, i + 1, plist)
    ELSE Attempt([task EXCEPT !.idx = i, !.attempt = 1], plist)

\* an except clause that disables the provider after every failure
DisableOnEveryFailure(task, e, plist) ==
    LET p        == task.provs[task.idx]
        secs     == IF HasRetrySeconds(e) THEN e.retry_seconds ELSE DEFAULT_RETRY_DELAY
        disabled == [plist EXCEPT ![p].disabled_until = now + secs]
    IN  [providers |-> disabled,
         task |-> ProviderLoop([task EXCEPT !.last_exc = e], task.idx + 1, disabled)]

(***************************************************************************)
(* Lines 292-301: the except clause of one attempt, entered with e.        *)
(***************************************************************************)
HandleException(task, e, plist) ==
    IF HasRetrySeconds(e)
    THEN LET p        == task.provs[task.idx]
             disabled == [plist EXCEPT ![p].disabled_until = now + e.retry_seconds]
         IN  [providers |-> disabled,
              task |-> ProviderLoop([task EXCEPT !.last_exc = e], task.idx + 1, disabled)]
    ELSE [providers |-> plist, task |-> Backoff(task, e)]

(***************************************************************************)
(* clipboard_watcher, lines 307-338: one iteration that sees a new text.   *)
(* asyncio.create_task queues the new task; it starts before the watcher   *)
(* runs again.                                                             *)
(***************************************************************************)
clipboard_watcher(txt) ==
    /\ \A t \in Tasks : tasks[t].pc # "spawned"
    /\ CASE txt.cmd = "model.gem" ->
                /\ preferred_provider_type' = "gemini"
                /\ UNCHANGED tasks
         [] txt.cmd = "model.openr" ->
                /\ preferred_provider_type' = "openrouter"
                /\ UNCHANGED tasks
         [] OTHER ->
                /\ \E t \in Tasks :
                      /\ tasks[t].pc = "none"
                      /\ \A u \in Tasks : u < t => tasks[u].pc # "none"
                      /\ txt.prompt = Prompt(t)
                      /\ tasks' = [tasks EXCEPT ![t] =
                            [NoTaskYet EXCEPT !.pc = "spawned", !.prompt_text = txt.prompt]]
                /\ UNCHANGED preferred_provider_type
    /\ UNCHANGED <<providers_file, providers, current_session, last_response_time,
                   now, error_json, retry_seconds, round_trips,
                   call, res, running, recording, capped,
                   last_handover>>

(***************************************************************************)
(* process_clip_as_prompt, lines 340-350 and 354-355, with send_prompt,    *)
(* lines 243-278, up to the first suspension.                              *)
(***************************************************************************)
process_clip_as_prompt(t) ==
    /\ tasks[t].pc = "spawned"
    /\ LET provs == order_providers(providers, preferred_provider_type)
           fail(msg) == Finished([tasks[t] EXCEPT !.pc = "failed",
                             !.out = [kind |-> "error", msg |-> msg, last |-> NoExc]])
           begun == [tasks[t] EXCEPT
                       !.messages = build_messages(current_session, tasks[t].prompt_text),
                       !.provs = provs,
                       !.calls = [i \in 1..Len(providers) |-> 0]]
       IN  tasks' = [tasks EXCEPT ![t] =
                IF now - last_response_time < MIN_SPACING
                THEN [tasks[t] EXCEPT !.pc = "too_soon"]
                ELSE IF providers = <<>> THEN fail("No providers configured")
                ELSE IF provs = <<>> THEN fail("No enabled providers found")
                ELSE ProviderLoop(begun, 1, providers)]
    /\ last_handover' = IF recording /\ now - last_response_time >= MIN_SPACING
                        THEN now ELSE last_handover
    /\ CountSends(t)
    /\ UNCHANGED <<providers_file, providers, preferred_provider_type,
                   current_session, last_response_time, now, error_json,
                   retry_seconds, call, res, running, recording, capped>>

\* a history that gets the user message alone
UserMessageOnly(task, raw_text, pid) ==
    <<[role |-> "user", text |-> task.prompt_text]>>

\* lines 281-282: the two messages that a success appends to the history
Exchange(task, raw_text, pid) ==
    <<[role |-> "user", text |-> task.prompt_text],
      [role |-> "assistant", text |-> raw_text, provider |-> pid]>>

(***************************************************************************)
(* The round trip of task t ends with resp: call_provider lines 159-170    *)
(* or 220-231, then send_prompt lines 279-302 up to the next suspension    *)
(* and, on success, process_clip_as_prompt lines 351-353.                  *)
(* save_ok = FALSE: write_text of save_session raises inside the try.      *)
(***************************************************************************)
Response(t, resp, save_ok) ==
    /\ tasks[t].pc = "awaiting"
    /\ LET task == tasks[t]
           pid  == providers[task.provs[task.idx]].id
           raw_text == resp.text
           appended == current_session \o Exchange(task, raw_text, pid)
           e    == CASE resp.status = 200 -> [kind |-> "OSError"]
                     [] resp.status = 429 ->
                          [kind |-> "HTTP 429",
                           retry_seconds |-> RetrySecondsOf(resp.data)]
                     [] OTHER -> [kind |-> "HTTP 500"]
           h    == HandleException(
                       IF resp.status = 200 THEN [task EXCEPT !.appended = @ + 2]
                                            ELSE task,
                       e, providers)
       IN  IF resp.status = 200 /\ save_ok
           THEN /\ current_session' = appended
                /\ last_response_time' = now
                /\ tasks' = [tasks EXCEPT ![t] =
                       Finished([task EXCEPT !.pc = "done", !.appended = @ + 2,
                                    !.out = [kind |-> "result", provider |-> pid,
                                             text |-> raw_text]])]
                /\ UNCHANGED providers
           ELSE /\ current_session' =
                       IF resp.status = 200 THEN appended ELSE current_session
                /\ tasks' = [tasks EXCEPT ![t] = h.task]
                /\ providers' = h.providers
                /\ UNCHANGED last_response_time
    /\ CountSends(t)
    /\ UNCHANGED <<providers_file, preferred_provider_type, now, error_json,
                   retry_seconds,
                   call, res, running, recording, capped,
                   last_handover>>

\* a `continue` that takes the same attempt again
WakeSameAttempt(t) ==
    /\ tasks[t].pc = "sleeping"
    /\ tasks' = [tasks EXCEPT ![t] = Attempt(tasks[t], providers)]
    /\ CountSends(t)
    /\ UNCHANGED <<providers_file, providers, preferred_provider_type,
                   current_session, last_response_time, now, error_json,
                   retry_seconds,
                   call, res, running, recording, capped,
                   last_handover>>

\* an attempt loop that runs once more: range(1, MAX_PROVIDER_RETRIES + 2)
WakeOnceMore(t) ==
    /\ tasks[t].pc = "sleeping"
    /\ tasks' = [tasks EXCEPT ![t] =
           IF tasks[t].attempt <= MAX_PROVIDER_RETRIES
           THEN Attempt([tasks[t] EXCEPT !.attempt = @ + 1], providers)
           ELSE ProviderLoop(tasks[t], tasks[t].idx + 1, providers)]
    /\ CountSends(t)
    /\ UNCHANGED <<providers_file, providers, preferred_provider_type,
                   current_session, last_response_time, now, error_json,
                   retry_seconds,
                   call, res, running, recording, capped,
                   last_handover>>

(***************************************************************************)
(* Lines 300-301 and 276: asyncio.sleep(0.4 * attempt) is over, `continue` *)
(* takes the next attempt or leaves the attempt loop.                      *)
(***************************************************************************)
Wake(t) ==
    /\ tasks[t].pc = "sleeping"
    /\ tasks' = [tasks EXCEPT ![t] =
           IF tasks[t].attempt < MAX_PROVIDER_RETRIES
           THEN Attempt([tasks[t] EXCEPT !.attempt = @ + 1], providers)
           ELSE ProviderLoop(tasks[t], tasks[t].idx + 1, providers)]
    /\ CountSends(t)
    /\ UNCHANGED <<providers_file, providers, preferred_provider_type,
                   current_session, last_response_time, now, error_json,
                   retry_seconds,
                   call, res, running, recording, capped,
                   last_handover>>

\* a second passes while every coroutine is suspended
Tick ==
    /\ \A t \in Tasks : tasks[t].pc # "spawned"
    /\ now < StartTime + MaxTime
    /\ now' = now + 1
    /\ last_handover' = IF recording /\ now' - last_handover < MIN_SPACING
                        THEN last_handover ELSE 0
    /\ UNCHANGED <<providers_file, providers, preferred_provider_type,
                   current_session, last_response_time, tasks, error_json,
                   retry_seconds, round_trips, call, res, running,
                   recording, capped>>

(***************************************************************************)
(* The state after main() has loaded the providers and started a session.  *)
(***************************************************************************)
Init ==
    /\ providers_file \in Configs
    /\ providers = load_providers(providers_file)
    /\ preferred_provider_type = "openrouter"
    /\ current_session = <<>>
    /\ last_response_time = 0
    /\ now = StartTime
    /\ tasks = [t \in Tasks |-> NoTaskYet]
    /\ error_json = JAbsent
    /\ retry_seconds = <<>>
    /\ round_trips = 0
    /\ call = NoCall
    /\ res = <<>>
    /\ running = TRUE
    /\ recording = FALSE
    /\ capped = TRUE
    /\ last_handover = 0

Next ==
    \/ \E txt \in ClipTexts : clipboard_watcher(txt)
    \/ \E t \in Tasks : process_clip_as_prompt(t)
    \/ \E t \in Tasks, resp \in Responses, save_ok \in BOOLEAN : Response(t, resp, save_ok)
    \/ \E t \in Tasks : Wake(t)
    \/ Tick

Spec == Init /\ [][Next]_vars

(***************************************************************************)
(* Sequential use: a prompt is copied only when no submission is in        *)
(* flight.                                                                 *)
(***************************************************************************)
InFlight(t) == tasks[t].pc \in {"spawned", "awaiting", "sleeping"}

SequentialWatcher(txt) ==
    /\ \A t \in Tasks : ~InFlight(t)
    /\ clipboard_watcher(txt)

NextSeq ==
    \/ \E txt \in ClipTexts : SequentialWatcher(txt)
    \/ \E t \in Tasks : process_clip_as_prompt(t)
    \/ \E t \in Tasks, resp \in Responses, save_ok \in BOOLEAN : Response(t, resp, save_ok)
    \/ \E t \in Tasks : Wake(t)
    \/ Tick

SpecSeq == Init /\ [][NextSeq]_vars

(***************************************************************************)
(* Shutdown: the command quit ends stdin_loop, main returns and            *)
(* asyncio.run cancels the tasks that are left.  A cancelled task gets     *)
(* CancelledError at the await it is suspended at (line 278 or 300), which *)
(* `except Exception` does not catch; a task that has not started never    *)
(* runs.  The command new starts an empty session.                         *)
(***************************************************************************)
\* clipboard_watcher runs `while running`; the texts are prompts
WatcherWhileRunning(txt) ==
    /\ running
    /\ txt.cmd = "prompt"
    /\ clipboard_watcher(txt)

\* stdin_loop, lines 386-387: new
stdin_new ==
    /\ running
    /\ current_session # <<>>
    /\ current_session' = <<>>
    /\ UNCHANGED <<providers_file, providers, preferred_provider_type,
                   last_response_time, now, tasks, error_json, retry_seconds,
                   round_trips, call, res, running, recording, capped,
                   last_handover>>

\* stdin_loop, lines 407-408: quit or exit
quit ==
    /\ running
    /\ running' = FALSE
    /\ UNCHANGED <<providers_file, providers, preferred_provider_type,
                   current_session, last_response_time, now, tasks, error_json,
                   retry_seconds, round_trips, call, res, recording, capped,
                   last_handover>>

\* the slot of a task that was cancelled
Cancelled(task) ==
    Finished([task EXCEPT !.pc = "cancelled",
                          !.out = [kind |-> "cancelled", at |-> task.pc]])

\* main, lines 415-418, and the end of asyncio.run
cancel_all ==
    /\ ~running
    /\ \E t \in Tasks : InFlight(t)
    /\ tasks' = [t \in Tasks |-> IF InFlight(t) THEN Cancelled(tasks[t]) ELSE tasks[t]]
    /\ UNCHANGED <<providers_file, providers, preferred_provider_type,
                   current_session, last_response_time, now, error_json,
                   retry_seconds, round_trips, call, res, running, recording, capped,
                   last_handover>>

\* main has loaded a providers.json of two OpenRouter entries
InitShutdown ==
    /\ providers_file = <<Provider("p1", "openrouter", 10, "openrouter/auto", OPENROUTER_URL),
                          Provider("p2", "openrouter", 20, "", "")>>
    /\ providers = load_providers(providers_file)
    /\ preferred_provider_type = "openrouter"
    /\ current_session = <<>>
    /\ last_response_time = 0
    /\ now = StartTime
    /\ tasks = [t \in Tasks |-> NoTaskYet]
    /\ error_json = JAbsent
    /\ retry_seconds = <<>>
    /\ round_trips = 0
    /\ call = NoCall
    /\ res = <<>>
    /\ running = TRUE
    /\ recording = FALSE
    /\ capped = TRUE
    /\ last_handover = 0

NextShutdown ==
    \/ \E txt \in ClipTexts : WatcherWhileRunning(txt)
    \/ \E t \in Tasks : process_clip_as_prompt(t)
    \/ \E t \in Tasks, resp \in Responses, save_ok \in BOOLEAN : Response(t, resp, save_ok)
    \/ \E t \in Tasks : Wake(t)
    \/ Tick
    \/ stdin_new
    \/ quit
    \/ cancel_all

SpecShutdown == InitShutdown /\ [][NextShutdown]_vars

(***************************************************************************)
(* The spacing of the submissions: the behaviours that keep the time at    *)
(* which process_clip_as_prompt last called send_prompt.                   *)
(***************************************************************************)
InitSpacing ==
    /\ providers_file \in Configs
    /\ providers = load_providers(providers_file)
    /\ preferred_provider_type = "openrouter"
    /\ current_session = <<>>
    /\ last_response_time = 0
    /\ now = StartTime
    /\ tasks = [t \in Tasks |-> NoTaskYet]
    /\ error_json = JAbsent
    /\ retry_seconds = <<>>
    /\ round_trips = 0
    /\ call = NoCall
    /\ res = <<>>
    /\ running = TRUE
    /\ recording = TRUE
    /\ capped = TRUE
    /\ last_handover = 0

SpecSpacing == InitSpacing /\ [][Next]_vars

(***************************************************************************)
(* Termination: the behaviours in which any number of requests is sent,    *)
(* every task that asyncio.create_task has queued is run, every round trip *)
(* ends (with a response, or with an error or the timeout of the request)  *)
(* and every asyncio.sleep returns.  The prompts are copied one after the  *)
(* other and within one second: a cooldown, once set, lasts.               *)
(***************************************************************************)
InitLive ==
    /\ providers_file \in Configs
    /\ providers = load_providers(providers_file)
    /\ preferred_provider_type = "openrouter"
    /\ current_session = <<>>
    /\ last_response_time = 0
    /\ now = StartTime
    /\ tasks = [t \in Tasks |-> NoTaskYet]
    /\ error_json = JAbsent
    /\ retry_seconds = <<>>
    /\ round_trips = 0
    /\ call = NoCall
    /\ res = <<>>
    /\ running = TRUE
    /\ recording = FALSE
    /\ capped = FALSE
    /\ last_handover = 0

\* a prompt is copied while no submission is in flight
PromptWatcher(txt) ==
    /\ txt.cmd = "prompt"
    /\ SequentialWatcher(txt)

NextLive ==
    \/ \E txt \in ClipTexts : PromptWatcher(txt)
    \/ \E t \in Tasks : process_clip_as_prompt(t)
    \/ \E t \in Tasks, resp \in Responses, save_ok \in BOOLEAN : Response(t, resp, save_ok)
    \/ \E t \in Tasks : Wake(t)

Fairness ==
    \A t \in Tasks :
        /\ WF_vars(process_clip_as_prompt(t))
        /\ WF_vars(\E resp \in Responses, save_ok \in BOOLEAN : Response(t, resp, save_ok))
        /\ WF_vars(Wake(t))

SpecLive == InitLive /\ [][NextLive]_vars /\ Fairness

(***************************************************************************)
(* The provider order of a submission, over many providers.json files:     *)
(* three entries with every mix of type, priority and enabled flag, and    *)
(* files with missing keys and with ids that contain a type name.          *)
(***************************************************************************)
ModelOf(type) == IF type = "gemini" THEN "gemini-2.0-flash" ELSE "openrouter/auto"

UrlOf(type) == IF type = "gemini" THEN GOOGLE_URL ELSE OPENROUTER_URL

Entry(id, type, priority, enabled) ==
    [id |-> id, type |-> type, priority |-> priority, enabled |-> enabled,
     model |-> ModelOf(type), base_url |-> UrlOf(type)]

ProviderTypes == {"openrouter", "gemini"}

Priorities == {5, 10, 20}

EntriesOf(id) ==
    {Entry(id, ty, pr, en) : ty \in ProviderTypes, pr \in Priorities, en \in BOOLEAN}

\* P1(priority 10, type A), P2(priority 5, type B), P3(priority 20, type A)
ExampleConfig ==
    << Entry("p1", "openrouter", 10, TRUE), Entry("p2", "gemini", 5, TRUE),
       Entry("p3", "openrouter", 20, TRUE) >>

OrderConfigs ==
    {<<a, b, c>> : a \in EntriesOf("p1"), b \in EntriesOf("p2"), c \in EntriesOf("p3")}
    \cup
    { << Provider("p1", "gemini", 10, "gemini-2.0-flash", GOOGLE_URL),
         Provider("gemini-free", "openrouter", 20, "openrouter/auto", OPENROUTER_URL),
         Provider("my-openrouter", "gemini", 30, "gemini-2.0-flash", GOOGLE_URL) >>,
      << [id |-> "p1", type |-> "openrouter", model |-> "openrouter/auto",
          base_url |-> OPENROUTER_URL],
         Provider("p2", "openrouter", 200, "openrouter/auto", OPENROUTER_URL),
         Provider("p3", "openrouter", 100, "openrouter/auto", OPENROUTER_URL),
         Provider("p4", "gemini", 100, "gemini-2.0-flash", GOOGLE_URL) >> }

InitOrder ==
    /\ providers_file \in OrderConfigs
    /\ providers = load_providers(providers_file)
    /\ preferred_provider_type = "openrouter"
    /\ current_session = <<>>
    /\ last_response_time = 0
    /\ now = StartTime
    /\ tasks = [t \in Tasks |-> NoTaskYet]
    /\ error_json = JAbsent
    /\ retry_seconds = <<>>
    /\ round_trips = 0
    /\ call = NoCall
    /\ res = <<>>
    /\ running = TRUE
    /\ recording = FALSE
    /\ capped = TRUE
    /\ last_handover = 0

\* the watcher and the start of each submission
NextOrder ==
    \/ \E txt \in ClipTexts : clipboard_watcher(txt)
    \/ \E t \in Tasks : process_clip_as_prompt(t)

SpecOrder == InitOrder /\ [][NextOrder]_vars

(***************************************************************************)
(* Submissions in a session that already holds the messages of earlier     *)
(* exchanges: 14 of them (28 messages) or 20 of them (40 messages), the    *)
(* last one 2 s ago or earlier.                                            *)
(***************************************************************************)
OldMessage(i) ==
    IF i % 2 = 1
    THEN [role |-> "user", text |-> <<"h">> \o str_int(i)]
    ELSE [role |-> "assistant", text |-> <<"a">> \o str_int(i), provider |-> "p1"]

History(n) == [i \in 1..n |-> OldMessage(i)]

HistoryLengths == {28, 40}

ContextConfig ==
    << Provider("p1", "openrouter", 10, "openrouter/auto", OPENROUTER_URL),
       Provider("p2", "openrouter", 20, "", "") >>

InitContext ==
    /\ providers_file = ContextConfig
    /\ providers = load_providers(providers_file)
    /\ preferred_provider_type = "openrouter"
    /\ current_session \in {History(n) : n \in HistoryLengths}
    /\ last_response_time = 0
    /\ now = StartTime
    /\ tasks = [t \in Tasks |-> NoTaskYet]
    /\ error_json = JAbsent
    /\ retry_seconds = <<>>
    /\ round_trips = 0
    /\ call = NoCall
    /\ res = <<>>
    /\ running = TRUE
    /\ recording = FALSE
    /\ capped = TRUE
    /\ last_handover = 0

SpecContext == InitContext /\ [][Next]_vars

(***************************************************************************)
(* parse_retry_delay_seconds on its own: the bodies it is applied to.      *)
(***************************************************************************)
Str13s == <<"1", "3", "s">>

Str13_5s == <<"1", "3", ".", "5", "s">>

StrPT1H2M3S == <<"P", "T", "1", "H", "2", "M", "3", "S">>

\* 2^53 + 1 seconds
StrBig == <<"9", "0", "0", "7", "1", "9", "9", "2", "5", "4", "7", "4", "0", "9", "9", "3", "s">>

KnownDelays ==
    { Str13s, Str13_5s, StrPT1H2M3S, StrBig,
      <<"9", "0", "0", "7", "1", "9", "9", "2", "5", "4", "7", "4", "0", "9", "9", "2", "s">>,
      <<"P", "T", "1", "0", "S">>, <<"P", "T", "1", "H", "3", "S">>,
      <<"P", "T", "2", "M">>, <<"P", "T", "3", "M", "1", "H">>,
      <<"P", "T", "1", ".", "5", "S">>, <<"1", "3", "S">>, <<"1", "3">>,
      <<"1", "3", ".", "s">>, <<".", "5", "s">>, <<"-", "5", "s">>,
      <<" ", "1", "3", "s", " ">>, <<"1", "3", " ", "s">>,
      <<"1", "3", "s", "x">>, <<"x", "1", "3", "s">>, <<"0", "1", "3", "s">> }

DelayAlphabet == {"0", "1", "3", ".", "s", "P", "T", "H", "M", "S", " "}

BoundedStrings == UNION {[1..n -> DelayAlphabet] : n \in 0..MaxStrLen}

DelayValues ==
    {JAbsent, JNum(0), JNum(13)}
    \cup {JStr(s) : s \in BoundedStrings \cup KnownDelays}

DetailTypes == {"absent", "null", RETRY_INFO_TYPE, ERROR_INFO_TYPE}

FirstDetails ==
    { JOther,
      JDetail("null", JStr(Str13s)),
      JDetail("absent", JStr(Str13s)),
      JDetail(ERROR_INFO_TYPE, JStr(Str13s)),
      JDetail(RETRY_INFO_TYPE, JAbsent),
      JDetail(RETRY_INFO_TYPE, JStr(<<"s", "o", "o", "n">>)),
      JDetail(RETRY_INFO_TYPE, JStr(<<"3", "s">>)) }

SecondDetails ==
    { JOther,
      JDetail(RETRY_INFO_TYPE, JStr(Str13s)),
      JDetail(RETRY_INFO_TYPE, JStr(<<"P", "T", "2", "M">>)) }

ParseInputs ==
    { JOther,
      [k |-> "map", error |-> JAbsent],
      [k |-> "map", error |-> JOther],
      [k |-> "map", error |-> [k |-> "map", details |-> JAbsent]],
      [k |-> "map", error |-> [k |-> "map", details |-> JOther]],
      JBody(<<>>) }
    \cup {JBody(<<JDetail(RETRY_INFO_TYPE, rd)>>) : rd \in DelayValues}
    \cup {JBody(<<d>>) : d \in FirstDetails}
    \cup {JBody(<<d1, d2>>) : d1 \in FirstDetails, d2 \in SecondDetails}

InitParse ==
    /\ providers_file = <<>>
    /\ providers = <<>>
    /\ preferred_provider_type = "openrouter"
    /\ current_session = <<>>
    /\ last_response_time = 0
    /\ now = StartTime
    /\ tasks = [t \in Tasks |-> NoTaskYet]
    /\ error_json \in ParseInputs
    /\ retry_seconds = <<>>
    /\ round_trips = 0
    /\ call = NoCall
    /\ res = <<>>
    /\ running = TRUE
    /\ recording = FALSE
    /\ capped = TRUE
    /\ last_handover = 0

\* ex.retry_seconds = parse_retry_delay_seconds(data), lines 166 and 227
ParseCall ==
    /\ retry_seconds = <<>>
    /\ retry_seconds' = <<parse_retry_delay_seconds(error_json)>>
    /\ UNCHANGED <<providers_file, providers, preferred_provider_type,
                   current_session, last_response_time, now, tasks, error_json,
                   round_trips,
                   call, res, running, recording, capped,
                   last_handover>>

NextParse == ParseCall

SpecParse == InitParse /\ [][NextParse]_vars

(***************************************************************************)
(* Decoded JSON bodies of HTTP 200 answers, as Python values: dicts with   *)
(* their keys in order, lists, strings, non-negative ints, booleans and    *)
(* None.  Keys and strings are character sequences.                        *)
(***************************************************************************)
JNull == [k |-> "null"]

JBool(b) == [k |-> "bool", b |-> b]

JList(items) == [k |-> "list", items |-> items]

\* pairs: a sequence of <<key, value>>
JDict(pairs) == [k |-> "dict", pairs |-> pairs]

\* resp.json() raises
NotJson == [k |-> "invalid"]

KEY_candidates == <<"c", "a", "n", "d", "i", "d", "a", "t", "e", "s">>

KEY_content == <<"c", "o", "n", "t", "e", "n", "t">>

KEY_parts == <<"p", "a", "r", "t", "s">>

KEY_text == <<"t", "e", "x", "t">>

KEY_output == <<"o", "u", "t", "p", "u", "t">>

KEY_result == <<"r", "e", "s", "u", "l", "t">>

KEY_choices == <<"c", "h", "o", "i", "c", "e", "s">>

KEY_message == <<"m", "e", "s", "s", "a", "g", "e">>

\* isinstance(v, dict)
IsDict(v) == v.k = "dict"

Keys(d) == {d.pairs[i][1] : i \in 1..Len(d.pairs)}

\* d[key] of a dict that has the key
Item(d, key) == d.pairs[CHOOSE i \in 1..Len(d.pairs) : d.pairs[i][1] = key][2]

\* d.get(key)
get(d, key) == IF key \in Keys(d) THEN Item(d, key) ELSE JNull

\* sub in s, for strings
Contains(s, sub) ==
    \E i \in 0..(Len(s) - Len(sub)) : SubSeq(s, i + 1, i + Len(sub)) = sub

\* `key in v` does not raise TypeError
CanContain(v) == v.k \in {"dict", "list", "str"}

\* `key in v` for a dict (key test), a list (membership), a string (substring)
In(key, v) ==
    CASE v.k = "dict" -> key \in Keys(v)
      [] v.k = "list" -> \E i \in 1..Len(v.items) :
                            v.items[i].k = "str" /\ v.items[i].s = key
      [] v.k = "str"  -> Contains(v.s, key)

\* bool(v)
bool(v) ==
    CASE v.k = "dict" -> v.pairs # <<>>
      [] v.k = "list" -> v.items # <<>>
      [] v.k = "str"  -> v.s # <<>>
      [] v.k = "num"  -> v.n # 0
      [] v.k = "bool" -> v.b
      [] OTHER -> FALSE

\* a or b
Or(a, b) == IF bool(a) THEN a ELSE b

\* v[0] of a truthy v does not raise: a list or a string
CanIndex(v) == v.k \in {"list", "str"}

\* v[0]
Index0(v) == IF v.k = "list" THEN v.items[1] ELSE JStr(<<v.s[1]>>)

NULL_JSON == <<"n", "u", "l", "l">>

NONE_REPR == <<"N", "o", "n", "e">>

TRUE_JSON == <<"t", "r", "u", "e">>

TRUE_REPR == <<"T", "r", "u", "e">>

FALSE_JSON == <<"f", "a", "l", "s", "e">>

FALSE_REPR == <<"F", "a", "l", "s", "e">>

\* json.dumps(v) with quote "\"", repr(v) with quote "'"; the strings of
\* the model need no escapes
RECURSIVE Render(_, _), RenderItems(_, _), RenderPairs(_, _)
Render(v, quote) ==
    CASE v.k = "str"  -> <<quote>> \o v.s \o <<quote>>
      [] v.k = "num"  -> str_int(v.n)
      [] v.k = "null" -> IF quote = "\"" THEN NULL_JSON ELSE NONE_REPR
      [] v.k = "bool" -> IF quote = "\""
                         THEN (IF v.b THEN TRUE_JSON ELSE FALSE_JSON)
                         ELSE (IF v.b THEN TRUE_REPR ELSE FALSE_REPR)
      [] v.k = "list" -> <<"[">> \o RenderItems(v.items, quote) \o <<"]">>
      [] v.k = "dict" -> <<"{">> \o RenderPairs(v.pairs, quote) \o <<"}">>

RenderItems(items, quote) ==
    IF items = <<>> THEN <<>>
    ELSE IF Len(items) = 1 THEN Render(items[1], quote)
    ELSE Render(items[1], quote) \o <<",", " ">> \o RenderItems(Tail(items), quote)

RenderPairs(pairs, quote) ==
    IF pairs = <<>> THEN <<>>
    ELSE LET one == <<quote>> \o pairs[1][1] \o <<quote, ":", " ">>
                        \o Render(pairs[1][2], quote)
         IN  IF Len(pairs) = 1 THEN one
             ELSE one \o <<",", " ">> \o RenderPairs(Tail(pairs), quote)

\* json.dumps(v), as a value
dumps(v) == JStr(Render(v, "\""))

\* str(v), as a value
py_str(v) == IF v.k = "str" THEN v ELSE JStr(Render(v, "'"))

\* line 184: the first choice of a candidate without content.parts
CandidateText(cand) ==
    IF ~IsDict(cand) THEN Raised
    ELSE Return(Or(get(cand, KEY_content),
                   Or(get(cand, KEY_output), Or(get(cand, KEY_text), JStr(<<>>)))))

\* lines 192-197: the pieces of an `output` list, without those skipped
RECURSIVE OutputPieces(_)
OutputPieces(out) ==
    IF out = <<>> THEN <<>>
    ELSE LET o == Head(out)
             piece == IF IsDict(o)
                      THEN <<Or(get(o, KEY_content), Or(get(o, KEY_text), JStr(<<>>)))>>
                      ELSE IF o.k = "str" THEN <<o>> ELSE <<>>
         IN  piece \o OutputPieces(Tail(out))

\* "\n".join(pieces) of strings
RECURSIVE JoinLines(_)
JoinLines(pieces) ==
    IF pieces = <<>> THEN <<>>
    ELSE IF Len(pieces) = 1 THEN pieces[1].s
    ELSE pieces[1].s \o <<"\n">> \o JoinLines(Tail(pieces))

\* line 198: the join raises TypeError on a truthy piece that is no string
JoinOutput(out) ==
    LET kept == SelectSeq(OutputPieces(out), bool)
    IN  IF \E i \in 1..Len(kept) : kept[i].k # "str" THEN Raised
        ELSE Return(JStr(JoinLines(kept)))

(***************************************************************************)
(* Lines 173-206: the content the Gemini branch takes from a 200 body.     *)
(***************************************************************************)
gemini_content(data) ==
    IF ~IsDict(data) THEN Return(py_str(data))
    ELSE IF In(KEY_candidates, data) /\ bool(Item(data, KEY_candidates))
    THEN LET cands == Item(data, KEY_candidates)
         IN  IF ~CanIndex(cands) THEN Raised
             ELSE LET cand == Index0(cands)
                  IN  IF ~CanContain(cand) THEN Raised
                      ELSE IF ~In(KEY_content, cand) THEN CandidateText(cand)
                      ELSE IF ~IsDict(cand) THEN Raised
                      ELSE LET c == Item(cand, KEY_content)
                           IN  IF ~(IsDict(c) /\ In(KEY_parts, c))
                               THEN CandidateText(cand)
                               ELSE LET parts == Item(c, KEY_parts)
                                    IN  IF ~(bool(parts) /\ parts.k = "list")
                                        THEN Return(JStr(<<>>))
                                        ELSE IF ~IsDict(parts.items[1]) THEN Raised
                                        ELSE Return(IF KEY_text \in Keys(parts.items[1])
                                                    THEN Item(parts.items[1], KEY_text)
                                                    ELSE JStr(<<>>))
    ELSE IF In(KEY_output, data)
    THEN LET out == Item(data, KEY_output)
         IN  IF out.k = "str" THEN Return(out)
             ELSE IF out.k = "list" THEN JoinOutput(out.items)
             ELSE Return(dumps(out))
    ELSE IF ~In(KEY_candidates, data) /\ In(KEY_result, data)
    THEN Return(dumps(Item(data, KEY_result)))
    ELSE Return(dumps(data))

\* line 237
ChoiceText(ch) ==
    IF ~IsDict(ch) THEN Raised
    ELSE Return(Or(get(ch, KEY_text), dumps(ch)))

(***************************************************************************)
(* Lines 232-239: the content the OpenAI branch takes from a 200 body.     *)
(***************************************************************************)
openai_content(data) ==
    IF ~CanContain(data) THEN Raised
    ELSE IF ~In(KEY_choices, data) THEN Return(dumps(data))
    ELSE IF ~IsDict(data) THEN Raised
    ELSE LET choices == Item(data, KEY_choices)
         IN  IF ~bool(choices) THEN Return(dumps(data))
             ELSE IF ~CanIndex(choices) THEN Raised
             ELSE LET ch == Index0(choices)
                  IN  IF ~CanContain(ch) THEN Raised
                      ELSE IF ~In(KEY_message, ch) THEN ChoiceText(ch)
                      ELSE IF ~IsDict(ch) THEN Raised
                      ELSE IF IsDict(Item(ch, KEY_message))
                           THEN Return(get(Item(ch, KEY_message), KEY_content))
                           ELSE ChoiceText(ch)

\* the outcome of a call_provider that raises e after n round trips
Raises(e, n) == [kind |-> "raise", exc |-> e, round_trips |-> n]

\* `data = {}`, lines 164 and 225
EMPTY_BODY == [k |-> "map", error |-> JAbsent]

(***************************************************************************)
(* call_provider, lines 125-241, for a provider record and the answer of   *)
(* the server: its status, whether resp.text() returns, and what           *)
(* resp.json() gives.  The body of a 429 is in the form that               *)
(* parse_retry_delay_seconds takes.                                        *)
(***************************************************************************)
call_provider(prov, resp) ==
    IF FailsLocally(prov) THEN Raises([kind |-> "ConfigError"], 0)
    ELSE IF ~resp.text_ok THEN Raises([kind |-> "PayloadError"], 1)
    ELSE IF resp.status = 429
    THEN LET data == IF resp.json.k = "invalid" THEN EMPTY_BODY ELSE resp.json
         IN  Raises([kind |-> "HTTP 429",
                     retry_seconds |-> Val(parse_retry_delay_seconds(data))], 1)
    ELSE IF resp.status # 200
    THEN Raises([kind |-> "HTTP", status |-> resp.status], 1)
    ELSE IF resp.json.k = "invalid" THEN Raises([kind |-> "JSONDecodeError"], 1)
    ELSE LET c == IF IsGeminiBranch(prov) THEN gemini_content(resp.json)
                  ELSE openai_content(resp.json)
         IN  IF c.kind = "raise" THEN Raises([kind |-> "TypeError"], 1)
             ELSE [kind |-> "return", round_trips |-> 1,
                   value |-> [ok |-> TRUE, text |-> c.value, raw |-> resp.json,
                              provider_id |-> prov.id]]

(***************************************************************************)
(* call_provider on its own: the providers and the answers it is given.    *)
(***************************************************************************)
TXT_hi == JStr(<<"h", "i">>)

CallProviders ==
    { Provider("g", "gemini", 10, "gemini-2.0-flash", GOOGLE_URL),
      Provider("o", "openrouter", 10, "openrouter/auto", OPENROUTER_URL),
      Provider("g0", "gemini", 10, "", GOOGLE_URL) }

\* {key: value}
Dict1(key, value) == JDict(<< <<key, value>> >>)

\* {"candidates": [cand]}
Candidates(cand) == Dict1(KEY_candidates, JList(<<cand>>))

\* {"choices": [ch]}
Choices(ch) == Dict1(KEY_choices, JList(<<ch>>))

\* {"content": {"parts": [part]}}
Parts(part) == Dict1(KEY_content, Dict1(KEY_parts, JList(<<part>>)))

GeminiBodies ==
    { Candidates(Parts(Dict1(KEY_text, TXT_hi))),
      Candidates(Parts(JDict(<<>>))),
      Candidates(Parts(TXT_hi)),
      Candidates(Parts(JNum(5))),
      Candidates(Dict1(KEY_content, Dict1(KEY_parts, JList(<<>>)))),
      Candidates(Dict1(KEY_content, TXT_hi)),
      Candidates(Dict1(KEY_output, TXT_hi)),
      Candidates(Dict1(KEY_text, TXT_hi)),
      Candidates(JDict(<<>>)),
      Candidates(TXT_hi),
      Candidates(JNum(5)),
      Candidates(JNull),
      Candidates(JList(<<JStr(KEY_content)>>)),
      Dict1(KEY_candidates, TXT_hi),
      Dict1(KEY_candidates, JNum(5)),
      Dict1(KEY_candidates, Dict1(KEY_text, TXT_hi)),
      Dict1(KEY_candidates, JList(<<>>)),
      Dict1(KEY_output, TXT_hi),
      Dict1(KEY_output, JList(<<TXT_hi, Dict1(KEY_text, TXT_hi), JNum(5)>>)),
      Dict1(KEY_output, JList(<<Dict1(KEY_content, JNum(5))>>)),
      Dict1(KEY_output, JNum(5)),
      Dict1(KEY_output, Dict1(KEY_text, TXT_hi)),
      Dict1(KEY_result, Dict1(KEY_text, TXT_hi)),
      Dict1(KEY_result, TXT_hi) }

OpenAIBodies ==
    { Choices(Dict1(KEY_message, Dict1(KEY_content, TXT_hi))),
      Choices(Dict1(KEY_message, JDict(<<>>))),
      Choices(Dict1(KEY_text, TXT_hi)),
      Choices(JDict(<< <<KEY_message, TXT_hi>>, <<KEY_text, TXT_hi>> >>)),
      Choices(Dict1(KEY_message, TXT_hi)),
      Choices(Dict1(KEY_output, JNum(5))),
      Choices(TXT_hi),
      Choices(JNum(5)),
      Choices(JList(<<JStr(KEY_message)>>)),
      Dict1(KEY_choices, JList(<<>>)),
      Dict1(KEY_choices, Dict1(KEY_text, TXT_hi)),
      Dict1(KEY_choices, JNum(5)),
      JList(<<JStr(KEY_choices)>>) }

PlainBodies ==
    { JDict(<<>>), Dict1(KEY_text, JBool(TRUE)), JList(<<>>),
      JList(<<JNum(1), TXT_hi, JNull>>), TXT_hi, JStr(<<>>), JNum(5), JNum(0),
      JNull, JBool(FALSE) }

OkBodies == GeminiBodies \cup OpenAIBodies \cup PlainBodies

ErrorBodies ==
    { JOther, EMPTY_BODY, JBody(<<>>),
      JBody(<<JDetail(RETRY_INFO_TYPE, JStr(Str13s))>>),
      JBody(<<JDetail(RETRY_INFO_TYPE, JStr(<<"0", "s">>))>>),
      JBody(<<JDetail(RETRY_INFO_TYPE, JStr(StrPT1H2M3S))>>),
      JBody(<<JDetail(ERROR_INFO_TYPE, JStr(Str13s))>>),
      JBody(<<JDetail(RETRY_INFO_TYPE, JStr(<<"s", "o", "o", "n">>))>>) }

OtherStatuses == {400, 404, 500, 503}

Answer(status, text_ok, json) ==
    [status |-> status, text_ok |-> text_ok, json |-> json]

Answers ==
    {Answer(s, FALSE, NotJson) : s \in {200, 429} \cup OtherStatuses}
    \cup {Answer(429, TRUE, b) : b \in ErrorBodies \cup {NotJson}}
    \cup {Answer(s, TRUE, b) : s \in OtherStatuses, b \in {NotJson, EMPTY_BODY}}
    \cup {Answer(200, TRUE, b) : b \in OkBodies \cup {NotJson}}

InitCall ==
    /\ providers_file = <<>>
    /\ providers = <<>>
    /\ preferred_provider_type = "openrouter"
    /\ current_session = <<>>
    /\ last_response_time = 0
    /\ now = StartTime
    /\ tasks = [t \in Tasks |-> NoTaskYet]
    /\ error_json = JAbsent
    /\ retry_seconds = <<>>
    /\ round_trips = 0
    /\ call \in {[fn |-> "call_provider", prov |-> p, resp |-> a] :
                    p \in CallProviders, a \in Answers}
    /\ res = <<>>
    /\ running = TRUE
    /\ recording = FALSE
    /\ capped = TRUE
    /\ last_handover = 0

\* res = await call_provider(session, prov, messages, prompt_text), line 278
ProviderCall ==
    /\ call.fn = "call_provider"
    /\ res = <<>>
    /\ res' = <<call_provider(call.prov, call.resp)>>
    /\ UNCHANGED <<providers_file, providers, preferred_provider_type,
                   current_session, last_response_time, now, tasks, error_json,
                   retry_seconds, round_trips, call, running, recording, capped,
                   last_handover>>

NextCall == ProviderCall

SpecCall == InitCall /\ [][NextCall]_vars

(***************************************************************************)
(* minimalize_response, lines 95-123, on character sequences.              *)
(***************************************************************************)
LOWER_CASE ==
    <<"a", "b", "c", "d", "e", "f", "g", "h", "i", "j", "k", "l", "m",
      "n", "o", "p", "q", "r", "s", "t", "u", "v", "w", "x", "y", "z">>

\* \w, for the characters of the model
IsWord(c) == IsDigit(c) \/ c = "_" \/ \E i \in 1..Len(LOWER_CASE) : LOWER_CASE[i] = c

\* \s, and what str.strip removes
IsWhite(c) == c \in {" ", "\n", "\t"}

Max(S) == CHOOSE x \in S : \A y \in S : y <= x

Min(S) == CHOOSE x \in S : \A y \in S : x <= y

\* s.rstrip()
RStrip(s) ==
    LET keep == {i \in 1..Len(s) : ~IsWhite(s[i])}
    IN  IF keep = {} THEN <<>> ELSE SubSeq(s, 1, Max(keep))

\* s.strip()
Strip(s) ==
    LET keep == {i \in 1..Len(s) : ~IsWhite(s[i])}
    IN  IF keep = {} THEN <<>> ELSE SubSeq(s, Min(keep), Max(keep))

\* s.startswith(prefix)
StartsWith(s, prefix) == Len(prefix) <= Len(s) /\ SubSeq(s, 1, Len(prefix)) = prefix

\* s.endswith(suffix)
EndsWith(s, suffix) ==
    Len(suffix) <= Len(s) /\ SubSeq(s, Len(s) - Len(suffix) + 1, Len(s)) = suffix

\* the character U+0060 of the fences of line 95, which a TLA+ string cannot hold
BACKTICK == "backtick"

\* ``` at position i of s
FenceAt(s, i) == i + 2 <= Len(s) /\ \A j \in i..(i + 2) : s[j] = BACKTICK

\* the end of the run of \w that starts at position k of s
WordRunEnd(s, k) == Min({n \in k..(Len(s) + 1) : n = Len(s) + 1 \/ ~IsWord(s[n])})

(***************************************************************************)
(* _CODE_FENCE_RE, line 95, tried at position i: ```, the longest run of   *)
(* \w, a newline, and as little as possible up to the next ```.            *)
(***************************************************************************)
FenceMatch(s, i) ==
    LET nl      == WordRunEnd(s, i + 3)
        closers == {c \in (nl + 1)..Len(s) : FenceAt(s, c)}
    IN  IF FenceAt(s, i) /\ nl <= Len(s) /\ s[nl] = "\n" /\ closers # {}
        THEN [ok |-> TRUE, from |-> nl + 1, to |-> Min(closers) - 1,
              next |-> Min(closers) + 3]
        ELSE [ok |-> FALSE]

\* _CODE_FENCE_RE.findall(s), from position pos on
RECURSIVE findall(_, _)
findall(s, pos) ==
    LET starts == {i \in pos..Len(s) : FenceMatch(s, i).ok}
    IN  IF starts = {} THEN <<>>
        ELSE LET m == FenceMatch(s, Min(starts))
             IN  <<SubSeq(s, m.from, m.to)>> \o findall(s, m.next)

\* a sort that puts b before the blocks of its length
InsertBeforeSameLength(sorted, b) ==
    LET k == Cardinality({i \in 1..Len(sorted) : Len(sorted[i]) > Len(b)})
    IN  SubSeq(sorted, 1, k) \o <<b>> \o SubSeq(sorted, k + 1, Len(sorted))

\* blocks.sort(key=len, reverse=True) is stable: b goes after every block
\* that is not shorter
InsertByLength(sorted, b) ==
    LET k == Cardinality({i \in 1..Len(sorted) : Len(sorted[i]) >= Len(b)})
    IN  SubSeq(sorted, 1, k) \o <<b>> \o SubSeq(sorted, k + 1, Len(sorted))

\* line 102
RECURSIVE SortByLength(_)
SortByLength(blocks) ==
    IF blocks = <<>> THEN <<>>
    ELSE InsertByLength(SortByLength(SubSeq(blocks, 1, Len(blocks) - 1)),
                        blocks[Len(blocks)])

\* text.splitlines(), for texts whose line breaks are "\n"
RECURSIVE splitlines(_)
splitlines(s) ==
    LET breaks == {i \in 1..Len(s) : s[i] = "\n"}
    IN  IF s = <<>> THEN <<>>
        ELSE IF breaks = {} THEN <<s>>
        ELSE <<SubSeq(s, 1, Min(breaks) - 1)>>
                 \o splitlines(SubSeq(s, Min(breaks) + 1, Len(s)))

\* sep.join(lines)
RECURSIVE join(_, _)
join(sep, lines) ==
    IF lines = <<>> THEN <<>>
    ELSE IF Len(lines) = 1 THEN lines[1]
    ELSE lines[1] \o sep \o join(sep, Tail(lines))

KEYWORDS ==
    { <<"d", "e", "f">>, <<"c", "l", "a", "s", "s">>, <<"f", "o", "r">>,
      <<"w", "h", "i", "l", "e">>, <<"i", "f">>,
      <<"r", "e", "t", "u", "r", "n">>, <<"p", "r", "i", "n", "t">> }

\* [\w\.\-\_]
IsNameChar(c) == IsWord(c) \/ c \in {".", "-"}

(***************************************************************************)
(* INLINE_CODE_RE.match(x), line 96, for a stripped line x: a comment, an  *)
(* assignment, or a keyword that ends at a word boundary.                  *)
(***************************************************************************)
IsCodeLike(x) ==
    \/ StartsWith(x, <<"#">>) \/ StartsWith(x, <<"/", "/">>)
    \/ LET name == Min({n \in 1..(Len(x) + 1) : n = Len(x) + 1 \/ ~IsNameChar(x[n])})
           eq   == Min({n \in name..(Len(x) + 1) : n = Len(x) + 1 \/ ~IsWhite(x[n])})
       IN  name > 1 /\ eq <= Len(x) /\ x[eq] = "="
    \/ \E kw \in KEYWORDS :
          /\ StartsWith(x, kw)
          /\ Len(x) = Len(kw) \/ ~IsWord(x[Len(kw) + 1])

\* lines 108-118: the runs of code-like lines, a "" after each run that a
\* line that is not code-like ends
RECURSIVE CodeLines(_, _)
CodeLines(lines, curr) ==
    IF lines = <<>> THEN curr
    ELSE IF IsCodeLike(Strip(Head(lines)))
    THEN CodeLines(Tail(lines), Append(curr, Head(lines)))
    ELSE IF curr # <<>> THEN curr \o << <<>> >> \o CodeLines(Tail(lines), <<>>)
    ELSE CodeLines(Tail(lines), <<>>)

EXTRACTED ==
    <<"/", "/", " ", "c", "o", "d", "e", " ", "(", "e", "x", "t", "r",
      "a", "c", "t", "e", "d", ")", "\n">>

HEURISTIC ==
    <<"/", "/", " ", "c", "o", "d", "e", " ", "(", "h", "e", "u", "r",
      "i", "s", "t", "i", "c", ")", "\n">>

MINIMAL ==
    <<"/", "/", " ", "r", "e", "s", "p", "o", "n", "s", "e", " ", "(",
      "m", "i", "n", "i", "m", "a", "l", ")", "\n">>

\* the 1200 of line 122
TRUNCATE == 1200

\* s[:n]
FirstChars(s, n) == IF Len(s) <= n THEN s ELSE SubSeq(s, 1, n)

(***************************************************************************)
(* minimalize_response, lines 97-123; text is a string value or None.      *)
(***************************************************************************)
minimalize_response(text) ==
    IF ~bool(text) THEN <<>>
    ELSE LET blocks     == findall(text.s, 1)
             stripped   == RStrip(SortByLength(blocks)[1])
             code       == IF EndsWith(stripped, <<"\n">>) THEN stripped
                           ELSE stripped \o <<"\n">>
             code_lines == CodeLines(splitlines(text.s), <<>>)
             count      == Cardinality({i \in 1..Len(code_lines) :
                                           Strip(code_lines[i]) # <<>>})
         IN  IF blocks # <<>> THEN EXTRACTED \o code
             ELSE IF count >= 2
             THEN HEURISTIC \o Strip(join(<<"\n">>, code_lines)) \o <<"\n">>
             ELSE MINIMAL \o FirstChars(join(<<" ">>, splitlines(Strip(text.s))),
                                        TRUNCATE)

(***************************************************************************)
(* minimalize_response on its own: texts made of up to MaxStrLen pieces,   *)
(* and texts built around one to three fenced blocks.                      *)
(***************************************************************************)
FENCE == <<BACKTICK, BACKTICK, BACKTICK>>

Pieces ==
    { FENCE, <<"\n">>, <<" ">>, <<"x">>, <<"#">>, <<"=">>, <<"i", "f">> }

PieceTexts ==
    {join(<<>>, ps) : ps \in UNION {[1..n -> Pieces] : n \in 0..MaxStrLen}}

BLOCK_5 == <<"h", "e", "l", "l", "o">>

BLOCK_50 == [i \in 1..50 |-> IF i % 10 = 5 THEN "\n" ELSE "x"]

BlockContents ==
    { <<>>, <<"x">>, <<"y">>, <<"x", "\n">>, <<"y", " ", "\n">>, <<"\n", "\n">>,
      <<"x", "\n", "y">> }

BlockLists ==
    UNION {[1..n -> BlockContents] : n \in 1..3}
    \cup { <<BLOCK_5, BLOCK_50>>, <<BLOCK_50, BLOCK_5>> }

\* an opening fence with its tag, the block, the closing fence
Fenced(tag, block) == FENCE \o tag \o <<"\n">> \o block \o FENCE

FencedText(blocks, tag, sep) ==
    <<"a", " ">> \o join(sep, [i \in 1..Len(blocks) |-> Fenced(tag, blocks[i])])

TextCall(text, blocks) ==
    [fn |-> "minimalize_response", text |-> text, blocks |-> blocks]

TextCalls ==
    {TextCall(JStr(s), <<>>) : s \in PieceTexts}
    \cup {TextCall(JNull, <<>>)}
    \cup {TextCall(JStr(FencedText(bs, tag, sep)), bs) :
             bs \in BlockLists, tag \in {<<>>, <<"p", "y">>},
             sep \in {<<"\n">>, <<" ", "b", " ">>}}

InitText ==
    /\ providers_file = <<>>
    /\ providers = <<>>
    /\ preferred_provider_type = "openrouter"
    /\ current_session = <<>>
    /\ last_response_time = 0
    /\ now = StartTime
    /\ tasks = [t \in Tasks |-> NoTaskYet]
    /\ error_json = JAbsent
    /\ retry_seconds = <<>>
    /\ round_trips = 0
    /\ call \in TextCalls
    /\ res = <<>>
    /\ running = TRUE
    /\ recording = FALSE
    /\ capped = TRUE
    /\ last_handover = 0

\* minimalize_response(text)
MinimalizeCall ==
    /\ call.fn = "minimalize_response"
    /\ res = <<>>
    /\ res' = <<minimalize_response(call.text)>>
    /\ UNCHANGED <<providers_file, providers, preferred_provider_type,
                   current_session, last_response_time, now, tasks, error_json,
                   retry_seconds, round_trips, call, running, recording, capped,
                   last_handover>>

\* minimalize_response applied to its own result
MinimalizeAgain ==
    /\ call.fn = "minimalize_response"
    /\ Len(res) = 1
    /\ res' = Append(res, minimalize_response(JStr(res[1])))
    /\ UNCHANGED <<providers_file, providers, preferred_provider_type,
                   current_session, last_response_time, now, tasks, error_json,
                   retry_seconds, round_trips, call, running, recording, capped,
                   last_handover>>

NextText == MinimalizeCall \/ MinimalizeAgain

SpecText == InitText /\ [][NextText]_vars

(***************************************************************************)
(* The delay formats, stated on the text itself.                           *)
(***************************************************************************)
AllDigits(s, a, b) == a <= b /\ \A i \in a..b : s[i] \in {DigitChars[j] : j \in 1..10}

\* the natural number written at s[a..b], as a digit sequence
Number(s, a, b) ==
    LET z == CHOOSE i \in a..(b + 1) :
                 /\ \A j \in a..(i - 1) : s[j] = "0"
                 /\ i <= b => s[i] # "0"
    IN  [i \in 1..(b - z + 1) |-> DigitVal(s[z + i - 1])]

\* s without the blanks around it, as the pair of its end positions
Trimmed(s) ==
    LET inner == {i \in 1..Len(s) : s[i] # " "}
    IN  IF inner = {} THEN <<1, 0>>
        ELSE <<CHOOSE i \in inner : \A j \in inner : i <= j,
               CHOOSE i \in inner : \A j \in inner : i >= j>>

\* "<n>s" or "<n>.<frac>s" with n = s[1..n]
IsSecondsForm(s, n) ==
    /\ AllDigits(s, 1, n)
    /\ \/ Len(s) = n + 1 /\ s[n + 1] = "s"
       \/ /\ Len(s) >= n + 3
          /\ s[n + 1] = "."
          /\ AllDigits(s, n + 2, Len(s) - 1)
          /\ s[Len(s)] = "s"

\* s[a..b] is empty or "<digits><letter>"
IsComponent(s, a, b, letter) ==
    b = a - 1 \/ (b >= a + 1 /\ AllDigits(s, a, b - 1) /\ s[b] = letter)

ComponentValue(s, a, b) == IF b = a - 1 THEN 0 ELSE Val(Number(s, a, b - 1))

\* "PT[h]H[m]M[s]S" with the hours ending at i and the minutes at j
IsIsoForm(s, i, j) ==
    /\ Len(s) >= 2 /\ s[1] = "P" /\ s[2] = "T"
    /\ 2 <= i /\ i <= j /\ j <= Len(s)
    /\ IsComponent(s, 3, i, "H")
    /\ IsComponent(s, i + 1, j, "M")
    /\ IsComponent(s, j + 1, Len(s), "S")

\* the seconds a delay text stands for, <<>> around the value; {} if none
DelayMeaning(text) ==
    LET ends == Trimmed(text)
        s    == SubSeq(text, ends[1], ends[2])
    IN  {<<Number(s, 1, n)>> : n \in {n \in 1..Len(s) : IsSecondsForm(s, n)}}
        \cup
        {<<Digits(3600 * ComponentValue(s, 3, ij[1])
                  + 60 * ComponentValue(s, ij[1] + 1, ij[2])
                  + ComponentValue(s, ij[2] + 1, Len(s)))>> :
            ij \in {ij \in (2..Len(s)) \X (2..Len(s)) : IsIsoForm(s, ij[1], ij[2])}}

\* the details of a well-shaped payload, <<>> for any other payload
DetailsOf(body) ==
    IF /\ body.k = "map"
       /\ body.error.k = "map"
       /\ body.error.details.k = "list"
    THEN body.error.details.items ELSE <<>>

\* detail i is a RetryInfo detail with a delay in one of the two formats,
\* and no detail before it has a wrong shape
IsRetryInfoAt(items, i) ==
    /\ \A j \in 1..i : items[j].k = "map" /\ items[j].type # "null"
    /\ items[i].type = RETRY_INFO_TYPE
    /\ items[i].retryDelay.k = "str"
    /\ DelayMeaning(items[i].retryDelay.s) # {}

\* what the parser is to return for a payload
ExpectedDelay(body) ==
    LET items == DetailsOf(body)
        hits  == {i \in 1..Len(items) : IsRetryInfoAt(items, i)}
        first == CHOOSE i \in hits : \A j \in hits : i <= j
    IN  IF hits = {} THEN <<1, 0>>
        ELSE (CHOOSE m \in DelayMeaning(items[first].retryDelay.s) : TRUE)[1]

(***************************************************************************)
(* The order of a submission, stated on providers.json.                    *)
(***************************************************************************)
FileEnabled(e) == IF "enabled" \in DOMAIN e THEN e.enabled ELSE TRUE

FilePriority(e) == IF "priority" \in DOMAIN e THEN e.priority ELSE 100

\* the position of the entry with this id in providers.json
FilePos(id) == CHOOSE i \in 1..Len(providers_file) : providers_file[i].id = id

\* group 0: the entry matches the preferred type (by its type, or by an id
\* that contains the type name); group 1: every other entry
GroupOf(e, preferred) ==
    IF e.type = preferred \/ IdContains(e.id, preferred) THEN 0 ELSE 1

\* entry number i of providers.json comes before entry number j
ComesBefore(i, j, preferred) ==
    LET a == providers_file[i]
        b == providers_file[j]
    IN  \/ GroupOf(a, preferred) < GroupOf(b, preferred)
        \/ /\ GroupOf(a, preferred) = GroupOf(b, preferred)
           /\ \/ FilePriority(a) < FilePriority(b)
              \/ FilePriority(a) = FilePriority(b) /\ i < j

\* the ids of the providers a submission goes through, in its order
OrderIds(task) == [k \in 1..Len(task.provs) |-> providers[task.provs[k]].id]

IsExpectedOrder(ids, preferred) ==
    /\ {ids[k] : k \in 1..Len(ids)}
          = {providers_file[i].id : i \in {i \in 1..Len(providers_file) :
                                               FileEnabled(providers_file[i])}}
    /\ \A k, l \in 1..Len(ids) : k < l => ids[k] # ids[l]
    /\ \A k, l \in 1..Len(ids) :
          k < l => ComesBefore(FilePos(ids[k]), FilePos(ids[l]), preferred)

(***************************************************************************)
(* C5: when a submission starts, the order in which it goes through the    *)
(* providers is a permutation of the enabled providers: first those that   *)
(* match the preferred type, then all others, each group by ascending      *)
(* priority with ties in the order of the configuration; for P1(10, A),    *)
(* P2(5, B), P3(20, A) and preferred type A it is P1, P3, P2.              *)
(***************************************************************************)
C5_ProviderOrder ==
    [][\A t \in Tasks :
          (tasks[t].pc = "spawned" /\ tasks'[t].pc \in {"awaiting", "sleeping"}) =>
              /\ IsExpectedOrder(OrderIds(tasks'[t]), preferred_provider_type)
              /\ (providers_file = ExampleConfig
                     /\ preferred_provider_type = "openrouter")
                    => OrderIds(tasks'[t]) = <<"p1", "p3", "p2">>]_vars

\* a submission is on its way through P1, P3, P2 of the example
C5_Witness ==
    /\ providers_file = ExampleConfig
    /\ \E t \in Tasks :
          /\ tasks[t].pc = "awaiting"
          /\ OrderIds(tasks[t]) = <<"p1", "p3", "p2">>

(***************************************************************************)
(* What a step of a submission did.                                        *)
(***************************************************************************)
\* the number of times task t has entered call_provider for provider p
CallsTo(task, p) == IF p \in DOMAIN task.calls THEN task.calls[p] ELSE 0

\* in this step task t enters call_provider for provider p
CallsNow(t, p) == CallsTo(tasks'[t], p) = CallsTo(tasks[t], p) + 1

\* in this step task t starts a round trip to provider p
SendsNow(t, p) ==
    /\ tasks'[t].sent = tasks[t].sent + 1
    /\ tasks'[t].provs[tasks'[t].idx] = p

ProviderIds == 1..Len(providers)

\* provider p is in cooldown at the time of the state after the step
InCooldown(p) ==
    providers'[p].disabled_until # 0 /\ now' < providers'[p].disabled_until

\* in this step the round trip of task t ends with a failure
FailsNow(t) ==
    /\ tasks[t].pc = "awaiting"
    /\ tasks'[t] # tasks[t]
    /\ tasks'[t].pc # "done"

\* the positions of its order whose availability task t checks in this step
CheckedNow(t) ==
    {k \in 1..Len(tasks'[t].provs) : tasks[t].idx < k /\ k <= tasks'[t].idx}

(***************************************************************************)
(* C1: with one submission after the other, a rate-limit failure from P    *)
(* with delay s > 0 at time t sets P's cooldown to t + s; a submission     *)
(* that checks P before t + s does not call P, and a submission that       *)
(* checks P at t + s or later calls P at its place in the order, with the  *)
(* cooldown state of P left as it is.                                      *)
(***************************************************************************)
C1_CooldownThenEligible ==
    [][\A t \in Tasks :
          /\ (FailsNow(t) /\ tasks'[t].last_exc.kind = "HTTP 429"
                          /\ tasks'[t].last_exc.retry_seconds > 0) =>
                providers'[tasks[t].provs[tasks[t].idx]].disabled_until
                    = now + tasks'[t].last_exc.retry_seconds
          /\ \A k \in CheckedNow(t) :
                LET p  == tasks'[t].provs[k]
                    du == providers[p].disabled_until
                IN  /\ (du # 0 /\ now < du) =>
                          /\ ~CallsNow(t, p)
                          /\ k < tasks'[t].idx
                    /\ ~(du # 0 /\ now < du) =>
                          /\ CallsNow(t, p)
                          /\ k = tasks'[t].idx
                          /\ providers'[p].disabled_until = du]_vars

\* an earlier submission got a rate limit from a provider and has ended;
\* the cooldown has run out, and a later submission is calling that provider
C1_Witness ==
    \E t, u \in Tasks : \E p \in ProviderIds :
        /\ tasks[t].pc = "failed"
        /\ t < u
        /\ providers[p].disabled_until # 0
        /\ now >= providers[p].disabled_until
        /\ tasks[u].pc = "awaiting"
        /\ tasks[u].attempt = 1
        /\ tasks[u].provs[tasks[u].idx] = p

(***************************************************************************)
(* C2: no round trip to a provider P is started while P's cooldown is set  *)
(* and not yet over, whatever the interleaving of the submissions; a       *)
(* submission between its first and second attempt on P does not make the  *)
(* second attempt after another submission has put P into cooldown.        *)
(***************************************************************************)
C2_NoCallDuringCooldown ==
    [][\A t \in Tasks : \A p \in ProviderIds : SendsNow(t, p) => ~InCooldown(p)]_vars

(***************************************************************************)
(* C3: every provider call that ends with status 429, whatever delay the   *)
(* payload yields (0 included), sets the provider's cooldown to now +      *)
(* delay, and the submission makes no further attempt on that provider: it *)
(* advances to the next one.                                               *)
(***************************************************************************)
C3_RateLimitAdvances ==
    [][\A t \in Tasks :
          (FailsNow(t) /\ tasks'[t].last_exc.kind = "HTTP 429") =>
              /\ providers'[tasks[t].provs[tasks[t].idx]].disabled_until
                    = now + tasks'[t].last_exc.retry_seconds
              /\ tasks'[t].idx > tasks[t].idx]_vars

\* the providers after the current one of task t that are not in cooldown
EligibleLater(t) ==
    {k \in (tasks[t].idx + 1)..Len(tasks[t].provs) :
        LET du == providers[tasks[t].provs[k]].disabled_until
        IN  ~(du # 0 /\ now < du)}

(***************************************************************************)
(* C4: a submission calls each provider at most 2 times; a failure without *)
(* rate limit leaves the cooldowns as they are, and after the second such  *)
(* failure the submission gives the provider up and tries the next         *)
(* provider that is not in cooldown: it fails only if there is none.       *)
(***************************************************************************)
C4_RetryBudget ==
    /\ [](\A t \in Tasks : \A p \in ProviderIds : CallsTo(tasks[t], p) <= 2)
    /\ [][\A t \in Tasks :
             /\ (FailsNow(t) /\ tasks'[t].last_exc.kind \in {"HTTP 500", "OSError"}) =>
                   /\ providers' = providers
                   /\ tasks'[t].idx = tasks[t].idx
             /\ (tasks[t].pc = "sleeping" /\ tasks[t].attempt = 2
                    /\ tasks'[t] # tasks[t]) =>
                   /\ providers' = providers
                   /\ IF EligibleLater(t) = {}
                      THEN tasks'[t].pc = "failed"
                      ELSE /\ tasks'[t].pc # "failed"
                           /\ tasks'[t].idx \in EligibleLater(t)
                           /\ \A k \in EligibleLater(t) : tasks'[t].idx <= k
                           /\ CallsNow(t, tasks'[t].provs[tasks'[t].idx])]_vars

\* a provider was called twice, the second call ended with status 500, its
\* cooldown is not set, and the submission is calling the next provider
C4_Witness ==
    \E t \in Tasks :
        /\ tasks[t].pc = "awaiting"
        /\ tasks[t].attempt = 1
        /\ tasks[t].idx > 1
        /\ tasks[t].last_exc.kind = "HTTP 500"
        /\ CallsTo(tasks[t], tasks[t].provs[tasks[t].idx - 1]) = 2
        /\ providers[tasks[t].provs[tasks[t].idx - 1]].disabled_until = 0

(***************************************************************************)
(* C6: a submission that succeeds appends exactly two messages to the      *)
(* history, the user message with the prompt and right after it the        *)
(* assistant message with the response text and the id of the provider     *)
(* that answered, which is the provider the result names; a submission     *)
(* that fails appends nothing.                                             *)
(***************************************************************************)
C6_TwoMessagesOrNone ==
    [][\A t \in Tasks :
          /\ (tasks[t].pc # "done" /\ tasks'[t].pc = "done") =>
                /\ tasks'[t].appended = 2
                /\ current_session' = current_session \o
                      << [role |-> "user", text |-> tasks[t].prompt_text],
                         [role |-> "assistant", text |-> tasks'[t].out.text,
                          provider |-> tasks'[t].out.provider] >>
                /\ tasks'[t].out.provider
                      = providers[tasks[t].provs[tasks[t].idx]].id
          /\ (tasks[t].pc # "failed" /\ tasks'[t].pc = "failed") =>
                /\ tasks'[t].appended = 0
                /\ current_session' = current_session]_vars

(***************************************************************************)
(* C7: a submission that has gone through all its providers, each skipped  *)
(* for its cooldown or failed in all its attempts, ends with the error     *)
(* "All providers failed" that carries the last error, and has left the    *)
(* history as it was.                                                      *)
(***************************************************************************)
C7_ExhaustionLeavesHistory ==
    \A t \in Tasks :
        (tasks[t].provs # <<>> /\ tasks[t].idx > Len(tasks[t].provs)) =>
            /\ tasks[t].pc = "failed"
            /\ tasks[t].out = [kind |-> "error", msg |-> "All providers failed",
                               last |-> tasks[t].last_exc]
            /\ tasks[t].last_exc = NoExc =>
                  \A k \in 1..Len(tasks[t].provs) :
                      providers[tasks[t].provs[k]].disabled_until # 0
            /\ tasks[t].appended = 0

(***************************************************************************)
(* C8: a Gemini provider without a model fails without a round trip, is    *)
(* attempted exactly once in a submission, with no backoff wait, and its   *)
(* cooldown stays unset.                                                   *)
(***************************************************************************)
C8_ConfigErrorNotRetried ==
    \A t \in Tasks : \A p \in ProviderIds :
        (providers[p].type = "gemini" /\ providers[p].model = "") =>
            /\ CallsTo(tasks[t], p) <= 1
            /\ ~(tasks[t].pc \in {"awaiting", "sleeping"}
                   /\ tasks[t].provs[tasks[t].idx] = p)
            /\ providers[p].disabled_until = 0

\* the context of a submission of prompt q made with history h
ExpectedContext(h, q) ==
    LET n == Len(h)
        m == IF n < 30 THEN n ELSE 30
    IN  [k \in 1..(m + 2) |->
            IF k = 1 THEN [role |-> "system", content |-> SYSTEM_MSG]
            ELSE IF k = m + 2 THEN [role |-> "user", content |-> q]
            ELSE [role |-> h[n - m + k - 1].role, content |-> h[n - m + k - 1].text]]

(***************************************************************************)
(* C9: the context of a submission is the system message, the last         *)
(* min(30, n) of the n history messages in their order with role and text  *)
(* only, then the new user message (40 messages contribute the last 30);   *)
(* it is built once, at the start of the submission, and every attempt is  *)
(* handed that same context.                                               *)
(***************************************************************************)
C9_ContextAssembly ==
    [][\A t \in Tasks :
          /\ (tasks[t].pc = "spawned" /\ tasks'[t].messages # <<>>) =>
                /\ tasks'[t].messages
                      = ExpectedContext(current_session, tasks[t].prompt_text)
                /\ Len(current_session) = 40 =>
                      /\ Len(tasks'[t].messages) = 32
                      /\ tasks'[t].messages[2].content = current_session[11].text
                      /\ tasks'[t].messages[31].content = current_session[40].text
          /\ (tasks[t].messages # <<>> /\ tasks'[t].pc \in {"awaiting", "sleeping"}) =>
                tasks'[t].messages = tasks[t].messages
          /\ (\E p \in ProviderIds : CallsNow(t, p)) =>
                tasks'[t].call_args = <<tasks'[t].messages, tasks'[t].prompt_text>>]_vars

\* a second attempt is under way with the context of 30 of the 40 messages
\* the history had, after another submission has added its two messages
C9_Witness ==
    \E t \in Tasks :
        /\ tasks[t].pc = "awaiting"
        /\ tasks[t].attempt = 2
        /\ Len(current_session) = 42
        /\ Len(tasks[t].call_args[1]) = 32
        /\ tasks[t].call_args[1][2].content = <<"h", "1", "1">>

(***************************************************************************)
(* C10: parse_retry_delay_seconds never raises and returns a non-negative  *)
(* integer: n for a RetryInfo delay "<n>s" or "<n>.<frac>s", h*3600 + m*60 *)
(* + s for "PT[h]H[m]M[s]S" with each component optional, and the default  *)
(* 10 for every other payload.                                             *)
(***************************************************************************)
C10_ParserReturnsDelay ==
    retry_seconds # <<>> =>
        /\ \A i \in 1..Len(retry_seconds[1]) : retry_seconds[1][i] \in 0..9
        /\ retry_seconds[1] = ExpectedDelay(error_json)
        /\ error_json = JBody(<<JDetail(RETRY_INFO_TYPE, JStr(Str13s))>>)
               => retry_seconds[1] = <<1, 3>>
        /\ error_json = JBody(<<JDetail(RETRY_INFO_TYPE, JStr(Str13_5s))>>)
               => retry_seconds[1] = <<1, 3>>
        /\ error_json = JBody(<<JDetail(RETRY_INFO_TYPE, JStr(StrPT1H2M3S))>>)
               => retry_seconds[1] = <<3, 7, 2, 3>>

(***************************************************************************)
(* What a direct call of call_provider was given and gave.                 *)
(***************************************************************************)
\* a call_provider that got its answer is over
Answered == call.fn = "call_provider" /\ res # <<>> /\ ~FailsLocally(call.prov)

\* the first element of the list under key, if there is one
FirstOf(data, key) ==
    IF IsDict(data) /\ key \in Keys(data) /\ Item(data, key).k = "list"
          /\ Item(data, key).items # <<>>
    THEN {Item(data, key).items[1]} ELSE {}

\* candidates[0] is no mapping, or its content.parts[0] is no mapping
BrokenNesting(data) ==
    \E cand \in FirstOf(data, KEY_candidates) :
        \/ ~IsDict(cand)
        \/ /\ KEY_content \in Keys(cand)
           /\ \E part \in FirstOf(Item(cand, KEY_content), KEY_parts) : ~IsDict(part)

\* the text a first choice without message mapping falls back to
FallbackText(ch) ==
    IF KEY_text \in Keys(ch) /\ bool(Item(ch, KEY_text)) THEN Item(ch, KEY_text)
    ELSE dumps(ch)

(***************************************************************************)
(* C11: a call_provider that gets an answer makes one round trip; status   *)
(* 429 raises with a retry delay, the one parsed from the JSON body or 10  *)
(* if the body is no JSON; another status that is not 200 raises with the  *)
(* status and without retry delay; status 200 never raises with a retry    *)
(* delay.  This is so for both branches.                                   *)
(***************************************************************************)
C11_StatusPolicy ==
    Answered =>
        LET out  == res[1]
            resp == call.resp
        IN  /\ out.round_trips = 1
            /\ resp.status = 429 =>
                  /\ out.kind = "raise"
                  /\ "retry_seconds" \in DOMAIN out.exc
                  /\ out.exc.retry_seconds =
                        IF resp.json.k = "invalid" THEN DEFAULT_RETRY_DELAY
                        ELSE Val(ExpectedDelay(resp.json))
            /\ resp.status \notin {200, 429} =>
                  /\ out.kind = "raise"
                  /\ "status" \in DOMAIN out.exc
                  /\ out.exc.status = resp.status
                  /\ "retry_seconds" \notin DOMAIN out.exc
            /\ (resp.status = 200 /\ out.kind = "raise") =>
                  "retry_seconds" \notin DOMAIN out.exc

(***************************************************************************)
(* C12: with status 200 and a body that is JSON, call_provider returns a   *)
(* success and does not raise.  Gemini branch: if candidates[0] or         *)
(* content.parts[0] is no mapping, the text is the stringified body.       *)
(* OpenAI branch: without a non-empty list of choices the text is the      *)
(* stringified body; a first choice without message mapping gives its      *)
(* text field or else the stringified choice.                              *)
(***************************************************************************)
C12_ShapeTolerance ==
    (Answered /\ call.resp.status = 200 /\ call.resp.text_ok
              /\ call.resp.json.k # "invalid") =>
        LET out  == res[1]
            data == call.resp.json
        IN  /\ out.kind = "return"
            /\ out.value.ok
            /\ (IsGeminiBranch(call.prov) /\ BrokenNesting(data)) =>
                  out.value.text = dumps(data)
            /\ ~IsGeminiBranch(call.prov) =>
                  /\ FirstOf(data, KEY_choices) = {} => out.value.text = dumps(data)
                  /\ \A ch \in FirstOf(data, KEY_choices) :
                        (IsDict(ch) /\ ~(KEY_message \in Keys(ch)
                                          /\ IsDict(Item(ch, KEY_message)))) =>
                            out.value.text = FallbackText(ch)

(***************************************************************************)
(* What a direct call of minimalize_response was given and gave.           *)
(***************************************************************************)
Minimalized == call.fn = "minimalize_response" /\ res # <<>>

\* the first of the longest blocks
LongestFirst(blocks) ==
    blocks[Min({k \in 1..Len(blocks) :
                   \A l \in 1..Len(blocks) : Len(blocks[l]) <= Len(blocks[k])})]

\* out is marker, block without its trailing whitespace, one newline
IsTrimmedBlock(out, marker, block) ==
    \E n \in 0..Len(block) :
        /\ out = marker \o SubSeq(block, 1, n) \o <<"\n">>
        /\ n = 0 \/ ~IsWhite(block[n])
        /\ \A i \in (n + 1)..Len(block) : IsWhite(block[i])

(***************************************************************************)
(* C13: for a text with fenced blocks minimalize_response returns the line *)
(* "// code (extracted)" and the longest block, the first one of several   *)
(* longest, without its trailing whitespace and with one newline at its    *)
(* end; of blocks of 5 and 50 characters it returns the one of 50; for an  *)
(* empty or absent text it returns the empty string.                       *)
(***************************************************************************)
C13_LongestBlock ==
    Minimalized =>
        /\ (call.text = JNull \/ call.text = JStr(<<>>)) => res[1] = <<>>
        /\ call.blocks # <<>> =>
              IsTrimmedBlock(res[1], EXTRACTED, LongestFirst(call.blocks))
        /\ (call.blocks = <<BLOCK_5, BLOCK_50>> \/ call.blocks = <<BLOCK_50, BLOCK_5>>) =>
              res[1] = EXTRACTED \o BLOCK_50 \o <<"\n">>

\* the text had two different blocks of the same length after a shorter one
C13_Witness ==
    /\ Minimalized
    /\ Len(call.blocks) = 3
    /\ Len(call.blocks[1]) < Len(call.blocks[2])
    /\ Len(call.blocks[2]) = Len(call.blocks[3])
    /\ RStrip(call.blocks[2]) # RStrip(call.blocks[3])
    /\ res[1] = EXTRACTED \o RStrip(call.blocks[2]) \o <<"\n">>

(***************************************************************************)
(* C14: for a text without fence for which minimalize_response returns the *)
(* "// response (minimal)" form, minimalize_response of that result again  *)
(* returns the "// response (minimal)" form.                               *)
(***************************************************************************)
C14_ReapplyStaysMinimal ==
    (call.fn = "minimalize_response" /\ Len(res) = 2 /\ call.text # JNull
        /\ (\A i \in 1..Len(call.text.s) : call.text.s[i] # BACKTICK)
        /\ StartsWith(res[1], MINIMAL)) =>
        StartsWith(res[2], MINIMAL)

(***************************************************************************)
(* C15: in every state, also while submissions interleave, after the       *)
(* command new, and after shutdown has abandoned the submissions in flight *)
(* at their round trip or their backoff sleep, the history is a sequence   *)
(* of pairs: its length is even, the messages at odd positions are user    *)
(* messages and each is directly followed by an assistant message.         *)
(***************************************************************************)
C15_NoPartialEntry ==
    /\ Len(current_session) % 2 = 0
    /\ \A i \in 1..Len(current_session) :
          IF i % 2 = 1
          THEN /\ current_session[i].role = "user"
               /\ i < Len(current_session)
               /\ current_session[i + 1].role = "assistant"
          ELSE current_session[i].role = "assistant"

\* shutdown abandoned one submission at its round trip or its sleep after
\* another one had succeeded
C15_Witness ==
    /\ ~running
    /\ Len(current_session) = 2
    /\ \E t \in Tasks : tasks[t].pc = "done"
    /\ \E t \in Tasks :
          /\ tasks[t].pc = "cancelled"
          /\ tasks[t].out.at \in {"awaiting", "sleeping"}

\* the step in which process_clip_as_prompt, run by task t, calls send_prompt
HandsOver(t) ==
    /\ tasks[t].pc = "spawned"
    /\ tasks'[t].pc \notin {"spawned", "too_soon"}

(***************************************************************************)
(* C16: process_clip_as_prompt calls send_prompt only if its previous call *)
(* of send_prompt is at least MIN_SPACING seconds ago, whether that        *)
(* submission succeeded, failed or is still in flight.                     *)
(***************************************************************************)
C16_MinimumSpacing ==
    [][\A t \in Tasks :
          HandsOver(t) => (last_handover = 0 \/ now - last_handover >= MIN_SPACING)]_vars

(***************************************************************************)
(* C17: the step in which a provider call of a submission returns a        *)
(* success result (the step that appends to the history) ends the          *)
(* submission with success and sends no further request, whatever the      *)
(* outcome of the session save.                                            *)
(***************************************************************************)
C17_FirstSuccessEnds ==
    [][\A t \in Tasks :
          (tasks[t].pc = "awaiting" /\ tasks'[t].appended > tasks[t].appended)
              => (tasks'[t].pc = "done" /\ round_trips' = round_trips)]_vars

(***************************************************************************)
(* C18: a submission is in a backoff sleep only after an attempt that is   *)
(* not the last one on its provider and that did not fail with a rate      *)
(* limit, and the sleep lasts 0.4 s times the number of the attempt.       *)
(***************************************************************************)
C18_BackoffPlacement ==
    \A t \in Tasks :
        tasks[t].pc = "sleeping" =>
            /\ tasks[t].attempt < MAX_PROVIDER_RETRIES
            /\ tasks[t].last_exc.kind # "HTTP 429"
            /\ tasks[t].delay = BACKOFF_TENTHS * tasks[t].attempt
            /\ tasks[t].attempt = 1 => tasks[t].delay = 4

(***************************************************************************)
(* In this step the round trip of task t to the provider at position q of  *)
(* the global list ends with a rate limit that makes the submission leave  *)
(* the provider.  The last error is that rate limit, or the ConfigError of *)
(* the next provider if that one is entered and raises in the same step.   *)
(***************************************************************************)
RateLimitedNow(t, q) ==
    /\ FailsNow(t)
    /\ tasks[t].provs[tasks[t].idx] = q
    /\ tasks'[t].idx > tasks[t].idx
    /\ tasks'[t].appended = tasks[t].appended
    /\ tasks'[t].last_exc.kind \in {"HTTP 429", "ConfigError"}

(***************************************************************************)
(* C19: a step changes the provider list only if in that step the round    *)
(* trip of a submission to a provider P ends with a rate limit, and then   *)
(* it changes nothing but the disabled_until of P; a success, a failure    *)
(* without rate limit, the skip of a provider and a submission that finds  *)
(* no provider leave the list as it is.                                    *)
(***************************************************************************)
C19_CooldownFrame ==
    [][/\ Len(providers') = Len(providers)
       /\ \A q \in ProviderIds :
             providers'[q] # providers[q] =>
                /\ providers'[q] =
                      [providers[q] EXCEPT !.disabled_until = providers'[q].disabled_until]
                /\ \E t \in Tasks : RateLimitedNow(t, q)
                /\ \A r \in ProviderIds \ {q} : providers'[r] = providers[r]
       /\ \A t \in Tasks :
             (tasks'[t] # tasks[t] /\ ~\E q \in ProviderIds : RateLimitedNow(t, q))
                 => providers' = providers]_vars

\* a submission got a rate limit from its first provider and is calling the
\* second one: the first is in cooldown, the second is not
C19_Witness ==
    \E t \in Tasks :
        /\ tasks[t].pc = "awaiting"
        /\ tasks[t].idx = 2
        /\ tasks[t].last_exc.kind = "HTTP 429"
        /\ providers[tasks[t].provs[1]].disabled_until > now
        /\ providers[tasks[t].provs[2]].disabled_until = 0

(***************************************************************************)
(* C20: every rate limit that ends a round trip to a provider P sets the   *)
(* disabled_until of P to the time of the step plus the delay of that rate *)
(* limit, whatever it was before: set by another submission, later or      *)
(* earlier than the new value.                                             *)
(***************************************************************************)
C20_LastSignalWins ==
    [][\A t \in Tasks :
          (FailsNow(t) /\ tasks'[t].last_exc.kind = "HTTP 429") =>
              providers'[tasks[t].provs[tasks[t].idx]].disabled_until
                  = now + tasks'[t].last_exc.retry_seconds]_vars

\* the calls of call_provider that the submission of a task has made
RECURSIVE SumOf(_)
SumOf(counts) == IF counts = <<>> THEN 0 ELSE Head(counts) + SumOf(Tail(counts))

\* the enabled providers, line 263
EnabledEntries == {i \in 1..Len(providers) : IsEnabled(providers[i])}

\* send_prompt is running for task t
Submitted(t) == tasks[t].pc \in {"awaiting", "sleeping"}

\* send_prompt has returned or raised for task t
Ended(t) == tasks[t].pc \in {"done", "failed"}

(***************************************************************************)
(* C21: if every round trip ends and every backoff sleep returns, each     *)
(* submission ends, with success or with failure, and stays as it ended;   *)
(* it makes at most 2 x (number of enabled providers) calls of             *)
(* call_provider; its position in the provider order never goes back, and  *)
(* it calls no provider but the one at its position.                       *)
(***************************************************************************)
C21_Termination ==
    /\ \A t \in Tasks : Submitted(t) ~> Ended(t)
    /\ [](\A t \in Tasks :
             SumOf(tasks[t].calls) <= MAX_PROVIDER_RETRIES * Cardinality(EnabledEntries))
    /\ [][\A t \in Tasks :
             /\ Ended(t) => tasks'[t] = tasks[t]
             /\ Submitted(t) =>
                   /\ tasks'[t].idx >= tasks[t].idx
                   /\ tasks'[t].provs = tasks[t].provs
                   /\ \A k \in 1..Len(tasks[t].provs) :
                         CallsNow(t, tasks[t].provs[k]) =>
                            (k = tasks'[t].idx /\ Submitted(t)')]_vars

\* a submission has sent two requests to each of two providers and is in
\* its last backoff sleep, after an earlier submission has failed
C21_Witness ==
    \E t \in Tasks :
        /\ tasks[t].pc = "sleeping"
        /\ Len(tasks[t].provs) = 2
        /\ tasks[t].idx = 2
        /\ tasks[t].sent = MAX_PROVIDER_RETRIES * Len(tasks[t].provs)
        /\ SumOf(tasks[t].calls) = tasks[t].sent
        /\ \E u \in Tasks : u < t /\ tasks[u].pc = "failed"

====
